---- MODULE Spec2Model ----
(***************************************************************************)
(* The background service worker of the registration extension: the batch  *)
(* controller (startBatchRegistration, runWorker, stopRegistration,         *)
(* resetState), the per-session pipeline (runSessionRegistration,           *)
(* pollSessionToken), the two promise-chained locks and the history log.    *)
(*                                                                         *)
(* One action is one macrotask of the JavaScript event loop together with   *)
(* every microtask it queues: a handler runs to its next await on a         *)
(* timer, a network call or a browser call, and a continuation that is      *)
(* only waiting on an already settled promise runs in the same step.        *)
(***************************************************************************)
EXTENDS Integers, Sequences, FiniteSets, TLC

\* ----------------------------------------------------------------- bounds
MaxBatches == 2
MaxTarget == 2
MaxConcurrency == 2
MaxSessions == 2
MaxAttempts == 5
\* The contention scenario: one batch of as many workers as tasks.
ContentionSessions == 3
\* The undisturbed scenario: one batch of up to this many tasks, with neither
\* STOP_REGISTRATION nor RESET.
QuietTarget == 3
\* The tab scenario: this many tab ids per incognito window.
MaxTabs == 2
\* The hand-over scenario: calls that follow one another through STOP and
\* RESET while workers of the earlier call are still running.
HandoverSessions == 3
\* The polling scenario: single-worker batches, getToken calls counted.
PollSessions == 1
\* The verification-code scenario: this many GET_VERIFICATION_CODE requests
\* in flight, the mail collaborator finding one of this many codes.
MaxRequests == 2
MaxCodes == 2
\* The history scenario: single-worker batches over a restored history whose
\* newest RestoredSuccess records carry a token.
HistorySessions == 2
RestoredSuccess == 4
MaxLen == 4
MaxCount == 3
MaxSuffixes == 2
MaxAliases == 2
\* The validation scenario: one run over a stored history with this many
\* records that have a complete token.
ValidateRecords == 6

\* ------------------------------------------------------ program constants
HistoryCap == 100
ValidateBatchSize == 5

Max(a, b) == IF a > b THEN a ELSE b
Min(a, b) == IF a < b THEN a ELSE b

\* What the gmailAddress of a START_BATCH_REGISTRATION message may be: empty
\* (or missing), a string createInbox rejects (it holds no @, or nothing
\* before it), an address.
MailAddresses == {"empty", "invalid", "valid"}

\* The tabs of a window: window.tabs[0] and the ones navigation opens.
FirstTab == 1
TabIds == FirstTab..MaxTabs

BatchIds == 1..MaxBatches
RequestIds == 1..MaxRequests
\* What fetchVerificationCode settles with: a code, nothing, or a throw.
Codes == 1..MaxCodes
NothingFound == 0
FetchThrows == -1
FetchOutcomes == Codes \cup { NothingFound, FetchThrows }
WorkerIds == 0..(Max(MaxConcurrency, ContentionSessions) - 1)
SessionIds ==
    1..Max(Max(MaxSessions, ContentionSessions), Max(QuietTarget, HandoverSessions))

VARIABLES
    globalState,          \* the globalState object
    sessions,             \* keys of the sessions Map
    session,              \* the session objects, by id (they outlive their Map entry)
    sessionIdCounter,
    taskQueue,
    isRunning,
    shouldStop,
    gmailBaseAddress,     \* the kind of string it holds, one of MailAddresses
    registrationHistory,
    windowCreationLock,   \* the promise the variable holds: s is the promise that
    apiCallLock,          \*   session s created and has not resolved, 0 a resolved one
    winWaiters,           \* sessions suspended at "await windowCreationLock", oldest first
    apiWaiters,           \* sessions suspended at "await apiCallLock", oldest first
    batch,                \* one record per startBatchRegistration invocation
    nextBatch,            \* invocations accepted so far
    openWindows,          \* incognito windows open in the browser, named by creating session
    resetActive,          \* a resetState call is suspended in closeAllSessions
    resetPending,         \* sessions whose destroySession awaits chrome.windows.remove
    resetDone,            \* a resetState call has returned and no call to
                          \*   startBatchRegistration was accepted since it was made
    gmailApiAuthorized,   \* the flag of that name (a client exists whenever it is set)
    codeRequests,         \* the GET_VERIFICATION_CODE requests, by slot
    validation,           \* the validateAllTokens call in progress, if any
    probe,                \* the VALIDATE_TOKEN request in progress, if any
    oidcClient,           \* an AWSDeviceAuth object used on its own, and its call
    dotsCall,             \* a call of insertRandomDots: its arguments and its value
    aliasClient,          \* a GmailAliasClient object used on its own
    counting              \* whether calls are counted: getToken calls per session
                          \*   (attempts, misses), the results of a validation run

vars == << globalState, sessions, session, sessionIdCounter, taskQueue, isRunning,
           shouldStop, gmailBaseAddress, registrationHistory, windowCreationLock,
           apiCallLock, winWaiters, apiWaiters, batch,
           nextBatch, openWindows, resetActive, resetPending, resetDone,
           gmailApiAuthorized, codeRequests, validation, probe, oidcClient,
           dotsCall, aliasClient, counting >>

\* The whole state as one record, so that a handler's synchronous calls compose.
State ==
    [ globalState |-> globalState, sessions |-> sessions, session |-> session,
      sessionIdCounter |-> sessionIdCounter, taskQueue |-> taskQueue,
      isRunning |-> isRunning, shouldStop |-> shouldStop,
      gmailBaseAddress |-> gmailBaseAddress,
      registrationHistory |-> registrationHistory,
      windowCreationLock |-> windowCreationLock, apiCallLock |-> apiCallLock,
      winWaiters |-> winWaiters, apiWaiters |-> apiWaiters, batch |-> batch,
      nextBatch |-> nextBatch, openWindows |-> openWindows,
      resetActive |-> resetActive, resetPending |-> resetPending,
      resetDone |-> resetDone,
      gmailApiAuthorized |-> gmailApiAuthorized, codeRequests |-> codeRequests,
      validation |-> validation, probe |-> probe, oidcClient |-> oidcClient,
      dotsCall |-> dotsCall, aliasClient |-> aliasClient, counting |-> counting ]

\* ------------------------------------------------------------ initial state
\* The texts globalState.step takes, by their kind: the empty text, the text of
\* an accepted start, "progress d/T, registering number n", "progress d/T",
\* the text of a stop under way, and the two texts of the join.
StepTexts == { "empty", "starting", "registering", "progress", "stopping",
               "stopped", "completed" }

IdleGlobalState ==
    [ status |-> "idle", step |-> "empty", totalTarget |-> 0, totalRegistered |-> 0,
      totalFailed |-> 0, lastSuccess |-> FALSE ]

\* A session id not yet handed out by generateSessionId.  error is "null",
\* "window" for the messages of a failed window creation and "other" for any
\* other message.  createdBy is the startBatchRegistration invocation whose
\* worker created the session; loadFailed notes, when calls are counted, that
\* the session's waitForTabLoad rejected; task is the taskIndex the worker
\* popped for it and taskOf the invocation that had filled the queue.  A
\* window has the id of the session that created it, its tabs are numbered
\* from FirstTab, and 0 stands for null in windowId and tabId.
NoSession ==
    [ status |-> "none", pollAbort |-> FALSE, windowId |-> 0, tabId |-> 0,
      mailClient |-> FALSE,
      oidcAuth |-> FALSE, token |-> FALSE, error |-> "null", pc |-> "none",
      awaiting |-> -1, ret |-> "none", attempts |-> 0, misses |-> 0,
      createdBy |-> 0, loadFailed |-> FALSE, task |-> -1, taskOf |-> 0,
      verificationCode |-> 0 ]

NoWorker == [ pc |-> "none", session |-> 0 ]

\* An invocation of startBatchRegistration: its loopCount, its workers, and
\* whether STOP_REGISTRATION or RESET was handled while it was awaiting them.
NoBatch ==
    [ state |-> "unused", loopCount |-> 0,
      worker |-> [ w \in WorkerIds |-> NoWorker ],
      stopSeen |-> FALSE, resetSeen |-> FALSE ]

ResolvedBatch == [ NoBatch EXCEPT !.state = "resolved" ]

\* A session object whose pipeline has returned and that the Map no longer
\* holds is referenced by nothing: only its outcome is kept.
Collected(st) ==
    [ x \in SessionIds |->
        IF x \notin st.sessions /\ st.session[x].pc = "done"
        THEN [ NoSession EXCEPT !.pc = "done", !.status = st.session[x].status,
                                !.ret = st.session[x].ret,
                                !.createdBy = st.session[x].createdBy,
                                !.task = st.session[x].task,
                                !.taskOf = st.session[x].taskOf,
                                !.verificationCode = st.session[x].verificationCode ]
        ELSE st.session[x] ]

Becomes(st) ==
    /\ globalState' = st.globalState
    /\ sessions' = st.sessions
    /\ session' = Collected(st)
    /\ sessionIdCounter' = st.sessionIdCounter
    /\ taskQueue' = st.taskQueue
    /\ isRunning' = st.isRunning
    /\ shouldStop' = st.shouldStop
    /\ gmailBaseAddress' = st.gmailBaseAddress
    /\ registrationHistory' = st.registrationHistory
    /\ windowCreationLock' = st.windowCreationLock
    /\ apiCallLock' = st.apiCallLock
    /\ winWaiters' = st.winWaiters
    /\ apiWaiters' = st.apiWaiters
    /\ batch' = st.batch
    /\ nextBatch' = st.nextBatch
    /\ openWindows' = st.openWindows
    /\ resetActive' = st.resetActive
    /\ resetPending' = st.resetPending
    /\ resetDone' = st.resetDone
    /\ gmailApiAuthorized' = st.gmailApiAuthorized
    /\ codeRequests' = st.codeRequests
    /\ validation' = st.validation
    /\ probe' = st.probe
    /\ oidcClient' = st.oidcClient
    /\ dotsCall' = st.dotsCall
    /\ aliasClient' = st.aliasClient
    /\ counting' = st.counting

\* A request slot not in use.  A request is for the session the handler found
\* by the sender's window (0 when it found none); contacted says whether
\* fetchVerificationCode was called for it; code 0 is no code, manual the
\* needManualInput flag of the response.
NoRequest ==
    [ pc |-> "idle", session |-> 0, contacted |-> FALSE, success |-> FALSE,
      code |-> 0, manual |-> FALSE ]

\* No validateAllTokens call is running.
NoValidation ==
    [ pc |-> "idle", all |-> << >>, total |-> 0, validated |-> 0, results |-> << >>,
      started |-> << >>, events |-> << >>, details |-> << >>, returned |-> FALSE,
      tally |-> [ valid |-> 0, expired |-> 0, suspended |-> 0, invalid |-> 0,
                  error |-> 0 ] ]

\* new AWSDeviceAuth(): the fields are empty strings.  A field is "empty",
\* "value" (a non-empty string) or "undefined" (the answer had no such
\* property).  pc tells which fetch the call in progress awaits, within
\* whether that call is quickAuth, outcome what the last call returned
\* ("data", "credential", "null") or what it threw ("guard": the error of a
\* step-order test; "refused": the error made from a non-2xx answer;
\* "syntax": the rejection of response.json(); "network": the rejection of
\* fetch), fetched the endpoints the last call has contacted, in order.
\* registered and authorized tell whether registerClient and deviceAuthorize
\* have returned their data at least once.
DefaultInterval == 1
ServerInterval == 5
NewClient ==
    [ clientId |-> "empty", clientSecret |-> "empty", deviceCode |-> "empty",
      userCode |-> "empty", interval |-> DefaultInterval, pc |-> "idle",
      within |-> FALSE, outcome |-> "none", fetched |-> << >>,
      registered |-> FALSE, authorized |-> FALSE ]

\* insertRandomDots was not called.
NoDotsCall == [ pc |-> "idle", str |-> << >>, count |-> 0, result |-> << >> ]

\* new GmailAliasClient({ baseEmail }): baseEmail is the part of the address
\* before the @ (the domain is the same in every address and left out);
\* pureUsername is set by setBaseEmail (based tells whether it was called).  An
\* address is its user part and its suffix, 0 when it has no "+" part.
\* issued lists the addresses returned so far.
NoAddress == [ user |-> << >>, suffix |-> 0 ]
NoAliasClient ==
    [ baseEmail |-> << >>, based |-> FALSE, pureUsername |-> << >>,
      usedVariants |-> {}, counter |-> 0, address |-> NoAddress, issued |-> << >> ]

\* No VALIDATE_TOKEN request was made.
NoProbe ==
    [ pc |-> "idle", http |-> 0, suspended |-> FALSE, expiry |-> FALSE,
      denied |-> FALSE, result |-> "none" ]

Start ==
    /\ globalState = IdleGlobalState
    /\ sessions = {}
    /\ session = [ s \in SessionIds |-> NoSession ]
    /\ sessionIdCounter = 0
    /\ taskQueue = << >>
    /\ isRunning = FALSE
    /\ shouldStop = FALSE
    /\ gmailBaseAddress = "empty"
    /\ windowCreationLock = 0
    /\ apiCallLock = 0
    /\ winWaiters = << >>
    /\ apiWaiters = << >>
    /\ batch = [ b \in BatchIds |-> NoBatch ]
    /\ nextBatch = 0
    /\ openWindows = {}
    /\ resetActive = FALSE
    /\ resetPending = {}
    /\ resetDone = FALSE
    /\ gmailApiAuthorized = FALSE
    /\ codeRequests = [ r \in RequestIds |-> NoRequest ]
    /\ validation = NoValidation
    /\ probe = NoProbe
    /\ oidcClient = NewClient

\* The mail-alias module is not in use.
NoAliasCalls == dotsCall = NoDotsCall /\ aliasClient = NoAliasClient

Init == Start /\ NoAliasCalls /\ registrationHistory = << >> /\ counting = FALSE

\* ------------------------------------------------------------- the history
\* An insert at the head that never cuts the list.
saveToHistoryUncut(st, s, success) ==
    LET record == [ id |-> s, success |-> success,
                    error |-> IF success THEN "null" ELSE st.session[s].error,
                    tokenStatus |-> IF success THEN "unknown" ELSE "null",
                    token |-> IF success THEN "stored" ELSE "null" ]
    IN  [ st EXCEPT !.registrationHistory = << record >> \o @ ]

\* saveToHistory: the record goes to the head, the list is cut to HistoryCap.
saveToHistory(st, s, success) ==
    LET record == [ id |-> s, success |-> success,
                    error |-> IF success THEN "null" ELSE st.session[s].error,
                    tokenStatus |-> IF success THEN "unknown" ELSE "null",
                    token |-> IF success THEN "stored" ELSE "null" ]
        grown == << record >> \o st.registrationHistory
    IN  [ st EXCEPT !.registrationHistory = SubSeq(grown, 1, Min(Len(grown), HistoryCap)) ]

\* ------------------------------------------------------- the batch's join
\* A join that reports every batch as stopped.
joinBatchAsStopped(st, b) ==
    [ st EXCEPT !.isRunning = FALSE,
                !.globalState.status = "idle",
                !.globalState.step = "stopped",
                !.batch[b] = ResolvedBatch ]

\* startBatchRegistration after "await Promise.all(workers)".
joinBatch(st, b) ==
    LET final == IF st.shouldStop THEN "idle" ELSE "completed"
    IN  [ st EXCEPT !.isRunning = FALSE,
                    !.globalState.status = final,
                    !.globalState.step = IF st.shouldStop THEN "stopped" ELSE "completed",
                    !.batch[b] = ResolvedBatch ]

\* runWorker returns; the join runs once every worker of the invocation has.
workerExit(st, b, w) ==
    LET st1 == [ st EXCEPT !.batch[b].worker[w] = [ pc |-> "ended", session |-> 0 ] ]
        allEnded == \A v \in WorkerIds : st1.batch[b].worker[v].pc \in {"none", "ended"}
    IN  IF allEnded THEN joinBatch(st1, b) ELSE st1

\* The worker awaiting the pipeline of session s.
OwnerOf(st, s) ==
    CHOOSE bw \in BatchIds \X WorkerIds :
        /\ st.batch[bw[1]].worker[bw[2]].pc = "busy"
        /\ st.batch[bw[1]].worker[bw[2]].session = s

\* runWorker after "await runSessionRegistration(session)": the inter-task
\* delay, or the loop test failing at once.
workerAfterSession(st, s) ==
    LET bw == OwnerOf(st, s)
        st1 == [ st EXCEPT !.globalState.step = "progress" ]
    IN  IF ~st.shouldStop /\ Len(st.taskQueue) > 0
        THEN [ st1 EXCEPT !.batch[bw[1]].worker[bw[2]].pc = "delay" ]
        ELSE workerExit(st1, bw[1], bw[2])

\* ------------------------------------------------------------ the pipeline
\* runSessionRegistration resolves to ret.
pipelineReturned(st, s, ret) ==
    workerAfterSession(
        [ st EXCEPT !.session[s].pc = "done", !.session[s].ret = ret,
                    !.session[s].mailClient = FALSE,
                    !.session[s].attempts = 0, !.session[s].misses = 0 ], s)

\* The finally block: close the window if the session records one.
pipelineFinally(st, s, ret) ==
    IF st.session[s].windowId # 0
    THEN [ st EXCEPT !.session[s].pc = "closing", !.session[s].ret = ret ]
    ELSE pipelineReturned(st, s, ret)

\* A catch block that saves the record before it notes the message.
pipelineFailSavingFirst(st, s, message) ==
    LET st1 == saveToHistory(st, s, FALSE)
        st2 == [ st1 EXCEPT !.session[s].status = "error",
                            !.session[s].error = message ]
        st3 == [ st2 EXCEPT !.globalState.totalFailed = @ + 1 ]
    IN  pipelineFinally(st3, s, "false")

\* The catch block.
pipelineFail(st, s, message) ==
    LET st1 == [ st EXCEPT !.session[s].status = "error",
                           !.session[s].error = message ]
        st2 == saveToHistory(st1, s, FALSE)
        st3 == [ st2 EXCEPT !.globalState.totalFailed = @ + 1 ]
    IN  pipelineFinally(st3, s, "false")

\* The branch taken when pollSessionToken returned a credential.
pipelineSuccess(st, s) ==
    LET st1 == [ st EXCEPT !.session[s].status = "completed",
                           !.session[s].token = TRUE ]
        st2 == saveToHistory(st1, s, TRUE)
        st3 == [ st2 EXCEPT !.globalState.totalRegistered = @ + 1,
                            !.globalState.lastSuccess = TRUE ]
    IN  pipelineFinally(st3, s, "true")

\* A loop test that looks at the clock only.
pollLoopOnTimeoutOnly(st, s, timeUp) ==
    IF timeUp
    THEN pipelineFail(st, s, "other")
    ELSE [ st EXCEPT !.session[s].pc = "fetch",
                     !.session[s].attempts = IF st.counting THEN @ + 1 ELSE @ ]

\* pollSessionToken at the test of its while loop: it leaves the loop and the
\* pipeline throws, or it calls getToken once more.
pollLoop(st, s, timeUp) ==
    IF st.session[s].pollAbort \/ st.shouldStop \/ timeUp
    THEN pipelineFail(st, s, "other")
    ELSE [ st EXCEPT !.session[s].pc = "fetch",
                     !.session[s].attempts = IF st.counting THEN @ + 1 ELSE @ ]

\* --------------------------------------------------------------- the locks
Range(q) == { q[i] : i \in DOMAIN q }

\* Resolved promises are all alike (awaiting one never suspends), so a lock
\* variable left holding the promise just resolved is written as 0.

\* A release of the window lock that resumes the newest waiter only.
releaseWindowLockNewestOnly(st, s) ==
    LET woken == SelectSeq(st.winWaiters, LAMBDA x : st.session[x].awaiting = s)
        last == IF woken = << >> THEN 0 ELSE woken[Len(woken)]
    IN  [ st EXCEPT
            !.winWaiters = SelectSeq(@, LAMBDA x : x # last),
            !.windowCreationLock = IF last # 0 THEN last
                                   ELSE IF @ = s THEN 0 ELSE @,
            !.session = [ x \in SessionIds |->
                            IF x = last
                            THEN [ @[x] EXCEPT !.pc = "creating", !.awaiting = -1 ]
                            ELSE @[x] ] ]

\* releaseLock() of the window lock by s: every session that awaited that
\* promise resumes, each stores a promise of its own and calls
\* chrome.windows.create.
releaseWindowLock(st, s) ==
    LET woken == SelectSeq(st.winWaiters, LAMBDA x : st.session[x].awaiting = s)
        rest == SelectSeq(st.winWaiters, LAMBDA x : st.session[x].awaiting # s)
    IN  [ st EXCEPT
            !.winWaiters = rest,
            !.windowCreationLock = IF woken # << >> THEN woken[Len(woken)]
                                   ELSE IF @ = s THEN 0 ELSE @,
            !.session = [ x \in SessionIds |->
                            IF x \in Range(woken)
                            THEN [ @[x] EXCEPT !.pc = "creating", !.awaiting = -1 ]
                            ELSE @[x] ] ]

\* A release of the API lock that resumes nobody.
releaseApiLockWakingNone(st, s) ==
    [ st EXCEPT !.apiCallLock = IF @ = s THEN 0 ELSE @ ]

\* releaseLock() of the API lock by s, likewise; the woken call quickAuth.
releaseApiLock(st, s) ==
    LET woken == SelectSeq(st.apiWaiters, LAMBDA x : st.session[x].awaiting = s)
        rest == SelectSeq(st.apiWaiters, LAMBDA x : st.session[x].awaiting # s)
    IN  [ st EXCEPT
            !.apiWaiters = rest,
            !.apiCallLock = IF woken # << >> THEN woken[Len(woken)]
                            ELSE IF @ = s THEN 0 ELSE @,
            !.session = [ x \in SessionIds |->
                            IF x \in Range(woken)
                            THEN [ @[x] EXCEPT !.pc = "inApi", !.awaiting = -1 ]
                            ELSE @[x] ] ]

\* Step 4 up to chrome.windows.create: "await windowCreationLock", then the
\* session's own promise replaces it.
acquireWindowLock(st, s) ==
    IF st.windowCreationLock = 0
    THEN [ st EXCEPT !.windowCreationLock = s, !.session[s].pc = "creating" ]
    ELSE [ st EXCEPT !.winWaiters = Append(@, s),
                     !.session[s].pc = "waitWin",
                     !.session[s].awaiting = st.windowCreationLock ]

\* withApiLock up to fn(): "await apiCallLock", then the own promise.
withApiLock(st, s) ==
    IF st.apiCallLock = 0
    THEN [ st EXCEPT !.apiCallLock = s, !.session[s].pc = "inApi" ]
    ELSE [ st EXCEPT !.apiWaiters = Append(@, s),
                     !.session[s].pc = "waitApi",
                     !.session[s].awaiting = st.apiCallLock ]

\* runSessionRegistration from its first line to the quickAuth call.  With
\* an address that GmailAliasClient cannot split, createInbox throws.
runSessionRegistration(st, s) ==
    LET st1 == [ st EXCEPT !.session[s].status = "running",
                           !.session[s].pollAbort = FALSE ]
    IN  IF st1.gmailBaseAddress = "empty"
        THEN pipelineFail(st1, s, "other")
        ELSE IF st1.gmailBaseAddress = "invalid"
        THEN pipelineFail([ st1 EXCEPT !.session[s].mailClient = TRUE ], s, "other")
        ELSE withApiLock([ st1 EXCEPT !.session[s].mailClient = TRUE ], s)

\* ------------------------------------------------------------- the workers
createSession(st) ==
    LET id == st.sessionIdCounter + 1
    IN  [ st EXCEPT !.sessionIdCounter = id,
                    !.session[id] = [ NoSession EXCEPT !.status = "pending",
                                                       !.pc = "start" ],
                    !.sessions = @ \cup {id} ]

\* A turn of the loop in which only worker 0 removes the task it reads.
runWorkerPeeking(st, b, w) ==
    IF ~st.shouldStop /\ Len(st.taskQueue) > 0
    THEN LET st1 == [ st EXCEPT
                        !.taskQueue = IF w = 0 THEN Tail(@) ELSE @,
                        !.sessions = { x \in @ :
                                         st.session[x].status \notin {"completed", "error"} } ]
             st2 == createSession(st1)
             id == st2.sessionIdCounter
             st3 == [ st2 EXCEPT !.globalState.step = "registering",
                                 !.batch[b].worker[w] = [ pc |-> "busy", session |-> id ],
                                 !.session[id].createdBy = b,
                                 !.session[id].task = Head(st.taskQueue),
                                 !.session[id].taskOf = st.nextBatch ]
         IN  runSessionRegistration(st3, id)
    ELSE workerExit(st, b, w)

\* One turn of runWorker's loop: the test, the pop, the pruning of finished
\* sessions, the new session and its pipeline up to the first suspension.
runWorker(st, b, w) ==
    IF ~st.shouldStop /\ Len(st.taskQueue) > 0
    THEN LET st1 == [ st EXCEPT
                        !.taskQueue = Tail(@),
                        !.sessions = { x \in @ :
                                         st.session[x].status \notin {"completed", "error"} } ]
             st2 == createSession(st1)
             id == st2.sessionIdCounter
             st3 == [ st2 EXCEPT !.globalState.step = "registering",
                                 !.batch[b].worker[w] = [ pc |-> "busy", session |-> id ],
                                 !.session[id].createdBy = b,
                                 !.session[id].task = Head(st.taskQueue),
                                 !.session[id].taskOf = st.nextBatch ]
         IN  runSessionRegistration(st3, id)
    ELSE workerExit(st, b, w)

\* ---------------------------------------------------------------- commands
\* START_BATCH_REGISTRATION refused: startBatchRegistration returns an error
\* object before it has written anything.
StartBatchRejected(gmailAddress) ==
    /\ isRunning \/ gmailAddress = "empty"
    /\ UNCHANGED vars

\* startBatchRegistration accepted, up to "await Promise.all(workers)".
\* runWorker(0) runs at once; the other workers start on their timers.
startBatchRegistration(st, loopCount, concurrency, gmailAddress) ==
    LET b == st.nextBatch + 1
        st1 == [ st EXCEPT
                   !.gmailBaseAddress = gmailAddress,
                   !.isRunning = TRUE,
                   !.shouldStop = FALSE,
                   !.globalState = [ status |-> "running", step |-> "starting",
                                     totalTarget |-> loopCount,
                                     totalRegistered |-> 0, totalFailed |-> 0,
                                     lastSuccess |-> FALSE ],
                   !.sessions = {},
                   !.taskQueue = [ i \in 1..loopCount |-> i - 1 ],
                   !.resetDone = FALSE,
                   !.nextBatch = b,
                   !.batch[b] = [ NoBatch EXCEPT
                                    !.state = "running",
                                    !.loopCount = loopCount,
                                    !.worker = [ w \in WorkerIds |->
                                                   IF w < concurrency
                                                   THEN [ pc |-> "stagger", session |-> 0 ]
                                                   ELSE NoWorker ] ] ]
    IN  runWorker(st1, b, 0)

StartBatchAccepted(loopCount, concurrency, gmailAddress) ==
    /\ ~isRunning
    /\ gmailAddress # "empty"
    /\ Becomes(startBatchRegistration(State, loopCount, concurrency, gmailAddress))

StartBatch(loopCount, concurrency, gmailAddress) ==
    /\ nextBatch < MaxBatches
    /\ sessionIdCounter + loopCount <= MaxSessions
    /\ StartBatchAccepted(loopCount, concurrency, gmailAddress)

\* The one command of the contention scenario.
StartContention ==
    /\ nextBatch = 0
    /\ StartBatchAccepted(ContentionSessions, ContentionSessions, "valid")

\* A stop that leaves the sessions' pollAbort as it is.
stopRegistrationKeepingPolls(st) ==
    [ st EXCEPT
        !.shouldStop = TRUE,
        !.taskQueue = << >>,
        !.globalState.step = "stopping",
        !.batch = [ b \in BatchIds |->
                      IF @[b].state = "running" THEN [ @[b] EXCEPT !.stopSeen = TRUE ]
                      ELSE @[b] ] ]

\* STOP_REGISTRATION.
stopRegistration(st) ==
    [ st EXCEPT
        !.shouldStop = TRUE,
        !.taskQueue = << >>,
        !.globalState.step = "stopping",
        !.session = [ x \in SessionIds |->
                        IF x \in st.sessions THEN [ @[x] EXCEPT !.pollAbort = TRUE ]
                        ELSE @[x] ],
        !.batch = [ b \in BatchIds |->
                      IF @[b].state = "running" THEN [ @[b] EXCEPT !.stopSeen = TRUE ]
                      ELSE @[b] ] ]

\* A STOP_REGISTRATION that sweeps the sessions' pollAbort and leaves the stop
\* flag and the queue as they are.
StopBatchSweepOnly ==
    Becomes([ stopRegistration(State) EXCEPT !.shouldStop = shouldStop,
                                             !.taskQueue = taskQueue ])

StopBatch == Becomes(stopRegistration(State))

\* resetState after "await closeAllSessions()".
resetFinish(st) ==
    [ st EXCEPT !.sessions = {}, !.globalState = IdleGlobalState,
                !.resetActive = FALSE, !.resetPending = {},
                !.resetDone = \A b \in BatchIds :
                                 st.batch[b].state = "running" => st.batch[b].resetSeen ]

\* destroySession after its window is gone (or when it had none).
destroySessionTail(st, s) ==
    [ st EXCEPT !.session[s].mailClient = FALSE, !.sessions = @ \ {s} ]

\* resetState up to the first chrome.windows.remove that has to be awaited.
resetState(st) ==
    LET withWindow == { x \in st.sessions : st.session[x].windowId # 0 }
        st1 == [ st EXCEPT
                   !.shouldStop = TRUE,
                   !.taskQueue = << >>,
                   !.isRunning = FALSE,
                   !.batch = [ b \in BatchIds |->
                                 IF @[b].state = "running"
                                 THEN [ @[b] EXCEPT !.resetSeen = TRUE ] ELSE @[b] ],
                   !.session = [ x \in SessionIds |->
                                   IF x \in st.sessions \ withWindow
                                   THEN [ @[x] EXCEPT !.mailClient = FALSE ] ELSE @[x] ],
                   !.sessions = withWindow,
                   !.resetActive = TRUE,
                   !.resetPending = withWindow ]
    IN  IF withWindow = {} THEN resetFinish(st1) ELSE st1

Reset ==
    /\ ~resetActive
    /\ Becomes(resetState(State))

\* findSessionByWindowId: the sessions of the Map that record window w (at
\* most one, a window id being recorded by the session that created it).
findSessionByWindowId(st, w) ==
    { x \in st.sessions : st.session[x].windowId = w }

\* A listener that forgets the window and keeps the tab.
onRemovedKeepingTab(st, w) ==
    [ st EXCEPT
        !.session = [ x \in SessionIds |->
                        IF x \in findSessionByWindowId(st, w)
                        THEN [ @[x] EXCEPT !.windowId = 0 ] ELSE @[x] ] ]

\* The chrome.windows.onRemoved listener: the session found by window id
\* forgets its window and its tab.
onRemoved(st, w) ==
    [ st EXCEPT
        !.session = [ x \in SessionIds |->
                        IF x \in findSessionByWindowId(st, w)
                        THEN [ @[x] EXCEPT !.windowId = 0, !.tabId = 0 ] ELSE @[x] ] ]

\* The chrome.tabs.onUpdated listener for tab t of incognito window w
\* reporting status loading: the session found by window id records the tab.
onUpdated(st, w, t) ==
    [ st EXCEPT
        !.session = [ x \in SessionIds |->
                        IF x \in findSessionByWindowId(st, w) /\ @[x].tabId # t
                        THEN [ @[x] EXCEPT !.tabId = t ] ELSE @[x] ] ]

\* Window w goes away in the browser, which then calls the listener.
windowGone(st, w) ==
    onRemoved([ st EXCEPT !.openWindows = @ \ {w} ], w)

\* chrome.windows.remove called by destroySession returns.
ResetRemoveReturns(s) ==
    /\ resetActive
    /\ s \in resetPending
    /\ LET st1 == IF s \in openWindows THEN windowGone(State, s) ELSE State
           st2 == destroySessionTail(st1, s)
           st3 == [ st2 EXCEPT !.resetPending = @ \ {s} ]
       IN  Becomes(IF st3.resetPending = {} THEN resetFinish(st3) ELSE st3)

\* The user (or the browser) closes an incognito window.
WindowClosed(w) ==
    /\ w \in openWindows
    /\ Becomes(windowGone(State, w))

\* REPORT_ERROR from the content script of a session's window.
ReportError(s) ==
    /\ s \in sessions
    /\ session[s].windowId = s
    /\ s \in openWindows
    /\ Becomes([ State EXCEPT !.session[s].status = "error",
                              !.session[s].error = "other" ])

\* UPDATE_STEP or AUTH_COMPLETED from the content script of a session's
\* window: updateSession writes the session's step text, which no decision of
\* the program reads; every modelled field is left as it is.
StepMessage(s) ==
    /\ s \in sessions
    /\ session[s].windowId = s
    /\ s \in openWindows
    /\ UNCHANGED vars

\* The response of a request that has not called the mail collaborator.
Responded(st, r, s, success, code, manual) ==
    [ st EXCEPT !.codeRequests[r] =
        [ pc |-> "returned", session |-> s, contacted |-> st.codeRequests[r].contacted,
          success |-> success, code |-> code, manual |-> manual ] ]

\* getVerificationCode(session) for the request in slot r, up to its return or
\* to "await gmailApiClient.fetchVerificationCode"; s is 0 when the handler
\* found no session and answers by itself.
getVerificationCode(st, r, s) ==
    LET st1 == [ st EXCEPT !.codeRequests[r] = [ NoRequest EXCEPT !.session = s ] ]
    IN  IF s = 0 THEN Responded(st1, r, s, FALSE, 0, FALSE)
        ELSE IF st.session[s].verificationCode # 0
        THEN Responded(st1, r, s, TRUE, st.session[s].verificationCode, FALSE)
        ELSE IF st.gmailApiAuthorized
        THEN [ st1 EXCEPT !.codeRequests[r].pc = "fetching",
                          !.codeRequests[r].contacted = TRUE ]
        ELSE Responded(st1, r, s, FALSE, 0, TRUE)

\* getVerificationCode after fetchVerificationCode has settled.
fetchSettled(st, r, outcome) ==
    LET s == st.codeRequests[r].session
    IN  IF outcome \in Codes
        THEN Responded([ st EXCEPT !.session[s].verificationCode = outcome ],
                       r, s, TRUE, outcome, FALSE)
        ELSE Responded(st, r, s, FALSE, 0, TRUE)

\* GET_VERIFICATION_CODE from a tab of window w (0: a sender without a tab).
GetVerificationCode(r, w) ==
    /\ codeRequests[r].pc # "fetching"
    /\ w \in openWindows \cup {0}
    /\ LET found == findSessionByWindowId(State, w)
       IN  Becomes(getVerificationCode(State, r,
                       IF w = 0 \/ found = {} THEN 0 ELSE CHOOSE x \in found : TRUE))

\* fetchVerificationCode settles.
FetchReturns(r, outcome) ==
    /\ codeRequests[r].pc = "fetching"
    /\ outcome \in FetchOutcomes
    /\ Becomes(fetchSettled(State, r, outcome))

\* GMAIL_API_AUTHORIZE, GMAIL_API_CHECK_AUTH or GMAIL_API_REVOKE settles, or
\* the check made at start-up: the flag is written.
GmailAuthSettles(authorized) ==
    /\ authorized \in BOOLEAN
    /\ gmailApiAuthorized # authorized
    /\ Becomes([ State EXCEPT !.gmailApiAuthorized = authorized ])

\* chrome.tabs.onUpdated for tab t of an open incognito window, with status
\* loading.  The tabId it writes is read only when waitForTabLoad is called.
TabUpdated(w, t) ==
    /\ w \in openWindows
    /\ t \in TabIds
    /\ Becomes(onUpdated(State, w, t))

\* ---------------------------------------------------------- pipeline steps
\* quickAuth settles; withApiLock's finally starts the 500 ms cool-down.
QuickAuthReturns(s, ok) ==
    /\ session[s].pc = "inApi"
    /\ Becomes([ State EXCEPT !.session[s].pc = "apiCooldown",
                              !.session[s].oidcAuth = ok ])

\* The cool-down timer fires: releaseLock(), then step 4 or the catch block.
ApiCooldownDone(s) ==
    /\ session[s].pc = "apiCooldown"
    /\ LET st1 == releaseApiLock(State, s)
       IN  Becomes(IF st1.session[s].oidcAuth
                   THEN acquireWindowLock(st1, s)
                   ELSE pipelineFail(st1, s, "other"))

CreateOutcomes == { "ok", "noTabs", "noId", "null", "throw" }

\* chrome.windows.create settles and a result with an id is taken as it is.
WindowCreateReturnsUnvalidated(s, outcome) ==
    /\ session[s].pc = "creating"
    /\ LET opened == IF outcome \in {"ok", "noTabs"}
                     THEN [ State EXCEPT !.openWindows = @ \cup {s} ] ELSE State
       IN  IF outcome \in {"ok", "noTabs"}
           THEN Becomes([ opened EXCEPT !.session[s].windowId = s,
                                        !.session[s].tabId = FirstTab,
                                        !.session[s].pc = "loading" ])
           ELSE Becomes(pipelineFail(releaseWindowLock(opened, s), s, "window"))

\* chrome.windows.create settles and its result is validated.
WindowCreateReturns(s, outcome) ==
    /\ session[s].pc = "creating"
    /\ LET opened == IF outcome \in {"ok", "noTabs"}
                     THEN [ State EXCEPT !.openWindows = @ \cup {s} ] ELSE State
       IN  IF outcome = "ok"
           THEN Becomes([ opened EXCEPT !.session[s].windowId = s,
                                        !.session[s].tabId = FirstTab,
                                        !.session[s].pc = "loading" ])
           ELSE Becomes(pipelineFail(releaseWindowLock(opened, s), s, "window"))

\* A load wait whose rejection ends the pipeline.
tabLoadSettledFatal(st, s, loaded) ==
    LET st1 == releaseWindowLock(st, s)
        st2 == [ st1 EXCEPT !.session[s].status = "polling_token",
                            !.session[s].loadFailed = st.counting /\ ~loaded ]
    IN  IF loaded THEN pollLoop(st2, s, FALSE)
        ELSE pipelineFail([ st1 EXCEPT !.session[s].loadFailed = st.counting ],
                          s, "window")

\* waitForTabLoad has settled, resolved or rejected (the rejection is only
\* logged), and the 1 s timer after it fires: the lock is released and step 5
\* starts polling.
tabLoadSettled(st, s, loaded) ==
    LET st1 == releaseWindowLock(st, s)
        st2 == [ st1 EXCEPT !.session[s].status = "polling_token",
                            !.session[s].loadFailed = st.counting /\ ~loaded ]
    IN  pollLoop(st2, s, FALSE)

TabLoadReturns(s, loaded) ==
    /\ session[s].pc = "loading"
    /\ loaded \in BOOLEAN
    /\ Becomes(tabLoadSettled(State, s, loaded))

\* getToken settles with a credential: the success branch.
GetTokenReturns(s) ==
    /\ session[s].pc = "fetch"
    /\ Becomes(pipelineSuccess(State, s))

MissOutcomes == { "pending", "error" }

\* getToken settles with null (authorization_pending) or throws, the throw is
\* only logged, and the poll interval elapses: the loop test runs again.
\* timeUp says whether the 10 minutes are over by then.
PollIntervalDone(s, outcome, timeUp) ==
    /\ session[s].pc = "fetch"
    /\ outcome \in MissOutcomes
    /\ timeUp \/ session[s].pollAbort \/ shouldStop \/ session[s].attempts < MaxAttempts
    /\ Becomes(pollLoop([ State EXCEPT !.session[s].misses =
                                         IF counting THEN @ + 1 ELSE @ ], s, timeUp))

\* chrome.windows.remove of the finally block settles.
WindowsRemoveReturns(s) ==
    /\ session[s].pc = "closing"
    /\ LET st1 == IF s \in openWindows
                  THEN [ windowGone(State, s) EXCEPT !.session[s].windowId = 0 ]
                  ELSE State
       IN  Becomes(pipelineReturned(st1, s, session[s].ret))

\* ------------------------------------------------------------ worker timers
WorkerStaggerDone(b, w) ==
    /\ w > 0
    /\ batch[b].worker[w].pc = "stagger"
    /\ Becomes(runWorker(State, b, w))

InterTaskDelayDone(b, w) ==
    /\ batch[b].worker[w].pc = "delay"
    /\ Becomes(runWorker(State, b, w))

Next ==
    \/ \E g \in MailAddresses : StartBatchRejected(g)
    \/ \E T \in 1..MaxTarget, C \in 1..MaxConcurrency, g \in MailAddresses :
          StartBatch(T, C, g)
    \/ StopBatch
    \/ Reset
    \/ \E s \in SessionIds : ResetRemoveReturns(s)
    \/ \E w \in SessionIds : WindowClosed(w)
    \/ \E s \in SessionIds : ReportError(s)
    \/ \E s \in SessionIds : StepMessage(s)
    \/ \E w \in SessionIds : TabUpdated(w, FirstTab)
    \/ \E s \in SessionIds, ok \in BOOLEAN : QuickAuthReturns(s, ok)
    \/ \E s \in SessionIds : ApiCooldownDone(s)
    \/ \E s \in SessionIds, o \in CreateOutcomes : WindowCreateReturns(s, o)
    \/ \E s \in SessionIds, l \in BOOLEAN : TabLoadReturns(s, l)
    \/ \E s \in SessionIds : GetTokenReturns(s)
    \/ \E s \in SessionIds, o \in MissOutcomes, t \in BOOLEAN : PollIntervalDone(s, o, t)
    \/ \E s \in SessionIds : WindowsRemoveReturns(s)
    \/ \E b \in BatchIds, w \in WorkerIds : WorkerStaggerDone(b, w)
    \/ \E b \in BatchIds, w \in WorkerIds : InterTaskDelayDone(b, w)

Spec == Init /\ [][Next]_vars

\* A call to a collaborator settles or a timer fires: quickAuth, the
\* cool-down, chrome.windows.create, waitForTabLoad, chrome.windows.remove,
\* a worker's stagger or inter-task delay; or the clock has passed the
\* polling deadline when a poll interval ends.
Settles ==
    \/ \E s \in SessionIds, ok \in BOOLEAN : QuickAuthReturns(s, ok)
    \/ \E s \in SessionIds : ApiCooldownDone(s)
    \/ \E s \in SessionIds, o \in CreateOutcomes : WindowCreateReturns(s, o)
    \/ \E s \in SessionIds, l \in BOOLEAN : TabLoadReturns(s, l)
    \/ \E s \in SessionIds, o \in MissOutcomes : PollIntervalDone(s, o, TRUE)
    \/ \E s \in SessionIds : WindowsRemoveReturns(s)
    \/ \E b \in BatchIds, w \in WorkerIds : WorkerStaggerDone(b, w)
    \/ \E b \in BatchIds, w \in WorkerIds : InterTaskDelayDone(b, w)

\* One accepted call, with STOP_REGISTRATION and windows closed from outside
\* at any moment.
StartFair(loopCount, concurrency, gmailAddress) ==
    /\ nextBatch = 0
    /\ StartBatchAccepted(loopCount, concurrency, gmailAddress)

NextFair ==
    \/ \E g \in MailAddresses : StartBatchRejected(g)
    \/ \E T \in 1..MaxTarget, C \in 1..MaxConcurrency, g \in MailAddresses :
          StartFair(T, C, g)
    \/ StopBatch
    \/ \E w \in SessionIds : WindowClosed(w)
    \/ \E s \in SessionIds, ok \in BOOLEAN : QuickAuthReturns(s, ok)
    \/ \E s \in SessionIds : ApiCooldownDone(s)
    \/ \E s \in SessionIds, o \in CreateOutcomes : WindowCreateReturns(s, o)
    \/ \E s \in SessionIds, l \in BOOLEAN : TabLoadReturns(s, l)
    \/ \E s \in SessionIds : GetTokenReturns(s)
    \/ \E s \in SessionIds, o \in MissOutcomes, t \in BOOLEAN : PollIntervalDone(s, o, t)
    \/ \E s \in SessionIds : WindowsRemoveReturns(s)
    \/ \E b \in BatchIds, w \in WorkerIds : WorkerStaggerDone(b, w)
    \/ \E b \in BatchIds, w \in WorkerIds : InterTaskDelayDone(b, w)

\* The program never stays for ever in a state where something is due.
SpecFair == Init /\ [][NextFair]_vars /\ WF_vars(Settles)

\* One batch of ContentionSessions workers and tasks, left to run with no
\* further command, no message and no window closed from outside.
NextContention ==
    \/ StartContention
    \/ \E s \in SessionIds, ok \in BOOLEAN : QuickAuthReturns(s, ok)
    \/ \E s \in SessionIds : ApiCooldownDone(s)
    \/ \E s \in SessionIds, o \in CreateOutcomes : WindowCreateReturns(s, o)
    \/ \E s \in SessionIds, l \in BOOLEAN : TabLoadReturns(s, l)
    \/ \E s \in SessionIds : GetTokenReturns(s)
    \/ \E s \in SessionIds, o \in MissOutcomes, t \in BOOLEAN : PollIntervalDone(s, o, t)
    \/ \E s \in SessionIds : WindowsRemoveReturns(s)
    \/ \E b \in BatchIds, w \in WorkerIds : WorkerStaggerDone(b, w)
    \/ \E b \in BatchIds, w \in WorkerIds : InterTaskDelayDone(b, w)

SpecContention == Init /\ [][NextContention]_vars

\* One accepted call of up to QuietTarget tasks and MaxConcurrency workers that
\* nothing stops or resets: the collaborators answer in every way, windows are
\* closed from outside and content scripts send their messages.
StartQuiet(loopCount, concurrency, gmailAddress) ==
    /\ nextBatch = 0
    /\ StartBatchAccepted(loopCount, concurrency, gmailAddress)

NextQuiet ==
    \/ \E g \in MailAddresses : StartBatchRejected(g)
    \/ \E T \in 1..QuietTarget, C \in 1..MaxConcurrency, g \in MailAddresses :
          StartQuiet(T, C, g)
    \/ \E w \in SessionIds : WindowClosed(w)
    \/ \E s \in SessionIds : ReportError(s)
    \/ \E s \in SessionIds : StepMessage(s)
    \/ \E w \in SessionIds : TabUpdated(w, FirstTab)
    \/ \E s \in SessionIds, ok \in BOOLEAN : QuickAuthReturns(s, ok)
    \/ \E s \in SessionIds : ApiCooldownDone(s)
    \/ \E s \in SessionIds, o \in CreateOutcomes : WindowCreateReturns(s, o)
    \/ \E s \in SessionIds, l \in BOOLEAN : TabLoadReturns(s, l)
    \/ \E s \in SessionIds : GetTokenReturns(s)
    \/ \E s \in SessionIds, o \in MissOutcomes, t \in BOOLEAN : PollIntervalDone(s, o, t)
    \/ \E s \in SessionIds : WindowsRemoveReturns(s)
    \/ \E b \in BatchIds, w \in WorkerIds : WorkerStaggerDone(b, w)
    \/ \E b \in BatchIds, w \in WorkerIds : InterTaskDelayDone(b, w)

SpecQuiet == Init /\ [][NextQuiet]_vars

\* One accepted single-worker call whose windows are navigated, opening tabs
\* up to MaxTabs, and closed from outside at any moment.
NextTabs ==
    \/ \E T \in 1..MaxTarget : StartQuiet(T, 1, "valid")
    \/ \E w \in SessionIds : WindowClosed(w)
    \/ \E w \in SessionIds, t \in TabIds : TabUpdated(w, t)
    \/ \E s \in SessionIds : ReportError(s)
    \/ \E s \in SessionIds, ok \in BOOLEAN : QuickAuthReturns(s, ok)
    \/ \E s \in SessionIds : ApiCooldownDone(s)
    \/ \E s \in SessionIds, o \in CreateOutcomes : WindowCreateReturns(s, o)
    \/ \E s \in SessionIds, l \in BOOLEAN : TabLoadReturns(s, l)
    \/ \E s \in SessionIds : GetTokenReturns(s)
    \/ \E s \in SessionIds, o \in MissOutcomes, t \in BOOLEAN : PollIntervalDone(s, o, t)
    \/ \E s \in SessionIds : WindowsRemoveReturns(s)
    \/ \E b \in BatchIds, w \in WorkerIds : InterTaskDelayDone(b, w)

SpecTabs == Init /\ [][NextTabs]_vars

\* One accepted single-worker call during which content scripts ask for the
\* verification code, up to MaxRequests requests at a time, Gmail access
\* being granted and revoked at any moment.
NextCode ==
    \/ \E T \in 1..MaxTarget : StartQuiet(T, 1, "valid")
    \/ \E w \in SessionIds : WindowClosed(w)
    \/ \E r \in RequestIds, w \in SessionIds \cup {0} : GetVerificationCode(r, w)
    \/ \E r \in RequestIds, o \in FetchOutcomes : FetchReturns(r, o)
    \/ \E a \in BOOLEAN : GmailAuthSettles(a)
    \/ \E s \in SessionIds : QuickAuthReturns(s, TRUE)
    \/ \E s \in SessionIds : ApiCooldownDone(s)
    \/ \E s \in SessionIds, o \in CreateOutcomes : WindowCreateReturns(s, o)
    \/ \E s \in SessionIds : TabLoadReturns(s, TRUE)
    \/ \E s \in SessionIds : GetTokenReturns(s)
    \/ \E s \in SessionIds : PollIntervalDone(s, "pending", TRUE)
    \/ \E s \in SessionIds : WindowsRemoveReturns(s)
    \/ \E b \in BatchIds, w \in WorkerIds : InterTaskDelayDone(b, w)

SpecCode == Init /\ [][NextCode]_vars

\* A single-task call and the calls accepted after it, with STOP_REGISTRATION
\* and RESET at any moment, HandoverSessions sessions in all: the worker of a
\* call that was reset can still be awaiting its pipeline when the next call
\* fills the queue.
StartHandover(loopCount, concurrency) ==
    /\ nextBatch < MaxBatches
    /\ nextBatch = 0 => (loopCount = 1 /\ concurrency = 1)
    /\ sessionIdCounter + loopCount <= HandoverSessions
    /\ StartBatchAccepted(loopCount, concurrency, "valid")

NextHandover ==
    \/ \E g \in MailAddresses : StartBatchRejected(g)
    \/ \E T \in 1..MaxTarget, C \in 1..MaxConcurrency : StartHandover(T, C)
    \/ StopBatch
    \/ Reset
    \/ \E s \in SessionIds : ResetRemoveReturns(s)
    \/ \E s \in SessionIds, ok \in BOOLEAN : QuickAuthReturns(s, ok)
    \/ \E s \in SessionIds : ApiCooldownDone(s)
    \/ \E s \in SessionIds, o \in CreateOutcomes : WindowCreateReturns(s, o)
    \/ \E s \in SessionIds, l \in BOOLEAN : TabLoadReturns(s, l)
    \/ \E s \in SessionIds : GetTokenReturns(s)
    \/ \E s \in SessionIds, o \in MissOutcomes, t \in BOOLEAN : PollIntervalDone(s, o, t)
    \/ \E s \in SessionIds : WindowsRemoveReturns(s)
    \/ \E b \in BatchIds, w \in WorkerIds : WorkerStaggerDone(b, w)
    \/ \E b \in BatchIds, w \in WorkerIds : InterTaskDelayDone(b, w)

SpecHandover == Init /\ [][NextHandover]_vars

\* Single-worker batches under every command and message, with the getToken
\* calls of each session counted up to MaxAttempts.  A rejected load wait
\* differs from a resolved one only in the note loadFailed, so only the
\* resolved one is drawn here.
InitPoll == Start /\ NoAliasCalls /\ registrationHistory = << >> /\ counting = TRUE

StartPoll(loopCount) ==
    /\ nextBatch < MaxBatches
    /\ sessionIdCounter + loopCount <= PollSessions
    /\ StartBatchAccepted(loopCount, 1, "valid")

NextPoll ==
    \/ \E g \in MailAddresses : StartBatchRejected(g)
    \/ \E T \in 1..PollSessions : StartPoll(T)
    \/ StopBatch
    \/ Reset
    \/ \E s \in SessionIds : ResetRemoveReturns(s)
    \/ \E w \in SessionIds : WindowClosed(w)
    \/ \E s \in SessionIds : ReportError(s)
    \/ \E s \in SessionIds, ok \in BOOLEAN : QuickAuthReturns(s, ok)
    \/ \E s \in SessionIds : ApiCooldownDone(s)
    \/ \E s \in SessionIds, o \in CreateOutcomes : WindowCreateReturns(s, o)
    \/ \E s \in SessionIds : TabLoadReturns(s, TRUE)
    \/ \E s \in SessionIds : GetTokenReturns(s)
    \/ \E s \in SessionIds, o \in MissOutcomes, t \in BOOLEAN : PollIntervalDone(s, o, t)
    \/ \E s \in SessionIds : WindowsRemoveReturns(s)

SpecPoll == InitPoll /\ [][NextPoll]_vars

\* The same batches with the outcome of waitForTabLoad noted in the session;
\* the polling deadline has passed when the first getToken call misses.
NextLoad ==
    \/ \E g \in MailAddresses : StartBatchRejected(g)
    \/ \E T \in 1..PollSessions : StartPoll(T)
    \/ StopBatch
    \/ Reset
    \/ \E s \in SessionIds : ResetRemoveReturns(s)
    \/ \E w \in SessionIds : WindowClosed(w)
    \/ \E s \in SessionIds : ReportError(s)
    \/ \E s \in SessionIds, ok \in BOOLEAN : QuickAuthReturns(s, ok)
    \/ \E s \in SessionIds : ApiCooldownDone(s)
    \/ \E s \in SessionIds, o \in CreateOutcomes : WindowCreateReturns(s, o)
    \/ \E s \in SessionIds, l \in BOOLEAN : TabLoadReturns(s, l)
    \/ \E s \in SessionIds : GetTokenReturns(s)
    \/ \E s \in SessionIds, o \in MissOutcomes : PollIntervalDone(s, o, TRUE)
    \/ \E s \in SessionIds : WindowsRemoveReturns(s)

SpecLoad == InitPoll /\ [][NextLoad]_vars

\* ------------------------------------------------- the history's handlers
\* CLEAR_HISTORY.
ClearHistory == Becomes([ State EXCEPT !.registrationHistory = << >> ])

Ids(h) == [ i \in DOMAIN h |-> h[i].id ]
Prefix(q, n) == SubSeq(q, 1, Min(Len(q), n))
Suffix(q, n) == SubSeq(q, Min(Len(q), n) + 1, Len(q))

\* The filter of validateAllTokens: r.success && r.token?.refreshToken.
HasToken(r) == r.success /\ r.token \in {"stored", "refreshed", "noClient"}

\* ----------------------------------------------------------- validateToken
\* The probe's answer: http is the status code, 0 when fetch or the reading of
\* the body threw (then there is no text to hold a marker); suspended, expiry
\* and denied tell whether the text holds TEMPORARILY_SUSPENDED, one of the
\* expiry words, one of the three exception names.
NetworkFailure == 0
HttpStatuses == {200, 201, 204, 301, 302, 400, 401, 403, 404, 429, 500, 502, 503}
ProbeResponses ==
    [ http : HttpStatuses, suspended : BOOLEAN, expiry : BOOLEAN, denied : BOOLEAN ]
        \cup { [ http |-> NetworkFailure, suspended |-> FALSE, expiry |-> FALSE,
                 denied |-> FALSE ] }

\* A probe that looks at the status code 401 before the suspension marker.
validateTokenStatusFirst(http, suspended, expiry, denied) ==
    IF http = NetworkFailure THEN "error"
    ELSE IF http = 401 THEN "expired"
    ELSE IF suspended THEN "suspended"
    ELSE IF expiry THEN "expired"
    ELSE IF denied THEN "invalid"
    ELSE IF http >= 200 /\ http <= 299 THEN "valid"
    ELSE IF http = 403 THEN "invalid"
    ELSE IF http >= 500 THEN "error"
    ELSE "invalid"

\* validateToken: the status it returns for an answer of the probe.
validateToken(http, suspended, expiry, denied) ==
    IF http = NetworkFailure THEN "error"
    ELSE IF suspended THEN "suspended"
    ELSE IF http = 401 \/ expiry THEN "expired"
    ELSE IF denied THEN "invalid"
    ELSE IF http >= 200 /\ http <= 299 THEN "valid"
    ELSE IF http = 403 THEN "invalid"
    ELSE IF http >= 500 THEN "error"
    ELSE "invalid"

\* ------------------------------------------------- refreshAndValidateToken
\* How the token endpoint answers a refresh: a new pair, an error text with
\* an invalid-grant marker, another error text, or fetch / json() throws.
RefreshOutcomes == {"ok", "invalidGrant", "rejected", "throws"}

\* The result: its status, whether it carries newAccessToken, and whether
\* validateToken was called; with it the token the call was given and what
\* the token endpoint did ("none" when it was not asked).
refreshAndValidateToken(token, refresh, answer) ==
    IF token = "noClient"
    THEN [ status |-> "invalid", refreshed |-> FALSE, probed |-> FALSE,
           token |-> token, refresh |-> "none" ]
    ELSE IF refresh = "invalidGrant"
    THEN [ status |-> "expired", refreshed |-> FALSE, probed |-> FALSE,
           token |-> token, refresh |-> refresh ]
    ELSE IF refresh \in {"rejected", "throws"}
    THEN [ status |-> "error", refreshed |-> FALSE, probed |-> FALSE,
           token |-> token, refresh |-> refresh ]
    ELSE [ status |-> validateToken(answer.http, answer.suspended, answer.expiry,
                                    answer.denied),
           refreshed |-> TRUE, probed |-> TRUE, token |-> token, refresh |-> refresh ]

\* -------------------------------------------------------- validateAllTokens
TokenOf(h, id) ==
    IF \E i \in DOMAIN h : h[i].id = id
    THEN h[CHOOSE i \in DOMAIN h : h[i].id = id].token
    ELSE "null"

\* A settled record's handler that takes the new pair only from a valid result.
recordSettledKeepingPair(h, id, result) ==
    [ i \in DOMAIN h |->
        IF h[i].id = id
        THEN [ h[i] EXCEPT !.tokenStatus = result.status,
                           !.token = IF result.refreshed /\ result.status = "valid"
                                     THEN "refreshed" ELSE @ ]
        ELSE h[i] ]

\* The handler of one record, run when its refreshAndValidateToken settles:
\* the record object is written in place, which shows in the history if the
\* list still holds the record.
recordSettled(h, id, result) ==
    [ i \in DOMAIN h |->
        IF h[i].id = id
        THEN [ h[i] EXCEPT !.tokenStatus = result.status,
                           !.token = IF result.refreshed THEN "refreshed" ELSE @ ]
        ELSE h[i] ]

\* A slice one record longer.
currentBatchLonger(all, i) == SubSeq(all, i + 1, Min(i + ValidateBatchSize + 1, Len(all)))

\* recordsToValidate.slice(i, i + concurrency).
currentBatch(all, i) == SubSeq(all, i + 1, Min(i + ValidateBatchSize, Len(all)))

NoTally == [ valid |-> 0, expired |-> 0, suspended |-> 0, invalid |-> 0, error |-> 0 ]
\* A record of recordsToValidate whose slice has not come, with the token
\* its object holds.
Queued(token) ==
    [ status |-> "queued", refreshed |-> FALSE, probed |-> FALSE,
      token |-> token, refresh |-> "none" ]

\* A refreshAndValidateToken call that has not settled, with the token it
\* was given.
Pending(token) ==
    [ status |-> "pending", refreshed |-> FALSE, probed |-> FALSE,
      token |-> token, refresh |-> "none" ]

\* A start that sends no notification.
startBatchSilently(v, first) ==
    LET ids == currentBatch(v.all, v.validated)
    IN  [ v EXCEPT !.pc = "batch",
                   !.results = [ id \in DOMAIN @ |->
                                   IF id \in Range(ids) THEN Pending(@[id].token)
                                   ELSE @[id] ],
                   !.started = @ \o ids ]

\* The head of the for loop: the refresh calls of the next slice are started.
\* Before the first slice the VALIDATION_PROGRESS message with validated 0 is
\* sent.
startBatch(v, first) ==
    LET ids == currentBatch(v.all, v.validated)
    IN  [ v EXCEPT !.pc = "batch",
                   !.results = [ id \in DOMAIN @ |->
                                   IF id \in Range(ids) THEN Pending(@[id].token)
                                   ELSE @[id] ],
                   !.started = @ \o ids,
                   !.events = IF first
                              THEN @ \o << [ validated |-> 0, total |-> v.total ] >>
                              ELSE @ ]

CountOf(ids, results, status) ==
    Cardinality({ k \in DOMAIN ids : results[ids[k]].status = status })

\* A tally that lists only the failed records in details.
tallyBatchErrorsOnly(v) ==
    LET ids == currentBatch(v.all, v.validated)
        res == v.results
        bad(id) == res[id].status = "error"
        validated == v.validated + Len(ids)
    IN  [ v EXCEPT
            !.tally = [ s \in DOMAIN NoTally |-> @[s] + CountOf(ids, res, s) ],
            !.details = @ \o [ k \in DOMAIN SelectSeq(ids, bad) |->
                                 [ id |-> SelectSeq(ids, bad)[k],
                                   status |-> res[SelectSeq(ids, bad)[k]].status ] ],
            !.validated = validated,
            !.events = @ \o << [ validated |-> validated, total |-> v.total ] >>,
            !.pc = IF validated < Len(v.all) THEN "delay" ELSE "idle",
            !.returned = ~(validated < Len(v.all)) ]

\* After Promise.allSettled: the results of the slice are counted in its
\* order, the VALIDATION_PROGRESS message is sent, and the run goes to its
\* delay or stores the history and returns.
tallyBatch(v) ==
    LET ids == currentBatch(v.all, v.validated)
        res == v.results
        bad(id) == res[id].status # "valid"
        validated == v.validated + Len(ids)
    IN  [ v EXCEPT
            !.tally = [ s \in DOMAIN NoTally |-> @[s] + CountOf(ids, res, s) ],
            !.details = @ \o [ k \in DOMAIN SelectSeq(ids, bad) |->
                                 [ id |-> SelectSeq(ids, bad)[k],
                                   status |-> res[SelectSeq(ids, bad)[k]].status ] ],
            !.validated = validated,
            !.events = @ \o << [ validated |-> validated, total |-> v.total ] >>,
            !.pc = IF validated < Len(v.all) THEN "delay" ELSE "idle",
            !.returned = ~(validated < Len(v.all)) ]

\* validateAllTokens up to its first await: the records to validate are
\* picked; with none the call returns at once, else the first slice starts.
validateAllTokens(h) ==
    LET recordsToValidate == Ids(SelectSeq(h, HasToken))
        v0 == [ NoValidation EXCEPT
                  !.all = recordsToValidate,
                  !.total = Len(recordsToValidate),
                  !.results = [ id \in Range(recordsToValidate) |->
                                  Queued(TokenOf(h, id)) ] ]
    IN  IF recordsToValidate = << >>
        THEN [ v0 EXCEPT !.returned = TRUE ]
        ELSE startBatch(v0, TRUE)

\* The results object of a run that has returned is kept only where the
\* calls are counted; elsewhere it is dropped with the response.
responded(st, v) == IF v.pc = "idle" /\ ~st.counting THEN NoValidation ELSE v

\* VALIDATE_ALL_TOKENS, one run at a time.
ValidateAllStarts ==
    /\ validation.pc = "idle"
    /\ Becomes([ State EXCEPT
           !.validation = responded(State, validateAllTokens(registrationHistory)) ])

\* refreshAndValidateToken settles for one record of the current slice; after
\* the last one of the slice the run goes on.
RefreshReturns(id, refresh, answer) ==
    /\ validation.pc = "batch"
    /\ id \in DOMAIN validation.results
    /\ validation.results[id].status = "pending"
    /\ LET result == refreshAndValidateToken(validation.results[id].token, refresh, answer)
           v1 == [ validation EXCEPT !.results[id] = result ]
           settled == \A x \in DOMAIN v1.results : v1.results[x].status # "pending"
       IN  Becomes([ State EXCEPT
               !.registrationHistory = recordSettled(@, id, result),
               !.validation = IF settled THEN responded(State, tallyBatch(v1)) ELSE v1 ])

\* The delay between two slices of validateAllTokens is over.
ValidateDelayDone ==
    /\ validation.pc = "delay"
    /\ Becomes([ State EXCEPT !.validation = startBatch(validation, FALSE) ])

\* A record as chrome.storage.local holds it, by kind: a failure record, a
\* success record whose token has no refreshToken, one whose clientId is
\* empty, one with a complete token.
StoredRecord(id, kind) ==
    [ id |-> id, success |-> kind # "failure",
      error |-> IF kind = "failure" THEN "other" ELSE "null",
      tokenStatus |-> IF kind = "failure" THEN "null" ELSE "unknown",
      token |-> CASE kind = "failure" -> "null"
                  [] kind = "noRefresh" -> "noRefresh"
                  [] kind = "noClient" -> "noClient"
                  [] OTHER -> "stored" ]

\* The history read back from chrome.storage.local when the service worker
\* starts: n records, the newest at the head, the older the smaller the id.
Restored(n) ==
    [ i \in 1..n |->
        StoredRecord(0 - i, IF i <= RestoredSuccess THEN "eligible" ELSE "failure") ]

RestoredLengths == {0, HistoryCap - 1, HistoryCap}
RecordIds == (0 - HistoryCap)..HistorySessions

CleanResponse == [ http |-> 200, suspended |-> FALSE, expiry |-> FALSE, denied |-> FALSE ]
\* The answer drawn in the history scenario: a refresh and a probe that
\* succeed.
HistoryResponses == { [ refresh |-> "ok", probe |-> CleanResponse ] }

InitHistory ==
    /\ Start
    /\ NoAliasCalls
    /\ \E n \in RestoredLengths : registrationHistory = Restored(n)
    /\ counting = FALSE

\* ------------------------------------------------ the device-auth client
\* Answers of the three endpoints.  "ok": a 2xx answer whose body is JSON
\* with the properties read; "partial": a 2xx answer whose JSON lacks
\* clientSecret (register) or deviceCode (authorize); "plain": a 2xx answer
\* with deviceCode and without interval; "notJson": a 2xx answer
\* whose body response.json() rejects; "pending": a non-2xx answer with error
\* authorization_pending; "refused": any other non-2xx answer with a JSON
\* body; "garbled": a non-2xx answer whose body is not JSON; "throws": fetch
\* rejects.
RegisterAnswers == {"ok", "partial", "notJson", "refused", "throws"}
AuthorizeAnswers == {"ok", "plain", "partial", "notJson", "refused", "throws"}
\* What a call throws for an answer that is not a 2xx JSON one.
ThrownFor(answer) ==
    CASE answer = "refused" -> "refused"
      [] answer \in {"notJson", "garbled"} -> "syntax"
      [] OTHER -> "network"
TokenAnswers == {"ok", "notJson", "pending", "refused", "garbled", "throws"}

Truthy(field) == field = "value"
\* A call of the client returns or throws.
Ends(c, outcome) == [ c EXCEPT !.pc = "idle", !.within = FALSE, !.outcome = outcome ]
\* A call of the client begins.
Begins(c, within) == [ c EXCEPT !.within = within, !.outcome = "none", !.fetched = << >> ]

\* registerClient up to its fetch.
registerClient(c) == [ c EXCEPT !.pc = "register", !.fetched = Append(@, "register") ]

\* A deviceAuthorize without the test of the client's fields.
deviceAuthorizeUntested(c) ==
    [ c EXCEPT !.pc = "authorize", !.fetched = Append(@, "authorize") ]

\* deviceAuthorize up to its fetch, or its throw.
deviceAuthorize(c) ==
    IF ~Truthy(c.clientId) \/ ~Truthy(c.clientSecret)
    THEN Ends(c, "guard")
    ELSE [ c EXCEPT !.pc = "authorize", !.fetched = Append(@, "authorize") ]

\* registerClient after its fetch; inside quickAuth, deviceAuthorize follows.
registerSettled(c, answer) ==
    IF answer \in {"notJson", "refused", "throws"}
    THEN Ends(c, ThrownFor(answer))
    ELSE LET c1 == [ c EXCEPT !.registered = TRUE,
                              !.clientId = "value",
                              !.clientSecret = IF answer = "ok" THEN "value"
                                               ELSE "undefined" ]
         IN  IF c.within THEN deviceAuthorize(c1) ELSE Ends(c1, "data")

\* deviceAuthorize after its fetch; quickAuth returns the fields.
authorizeSettled(c, answer) ==
    IF answer \in {"notJson", "refused", "throws"}
    THEN Ends(c, ThrownFor(answer))
    ELSE Ends([ c EXCEPT !.deviceCode = IF answer = "partial" THEN "undefined"
                                        ELSE "value",
                         !.userCode = "value",
                         !.authorized = TRUE,
                         !.interval = IF answer = "ok" THEN ServerInterval
                                      ELSE DefaultInterval ], "data")

\* getToken up to its fetch, or its throw.
getToken(c) ==
    IF ~Truthy(c.deviceCode)
    THEN Ends(c, "guard")
    ELSE [ c EXCEPT !.pc = "token", !.fetched = Append(@, "token") ]

\* getToken after its fetch.
tokenSettled(c, answer) ==
    CASE answer = "ok" -> Ends(c, "credential")
      [] answer = "pending" -> Ends(c, "null")
      [] OTHER -> Ends(c, ThrownFor(answer))

RegisterClientCalled ==
    /\ oidcClient.pc = "idle"
    /\ Becomes([ State EXCEPT !.oidcClient = registerClient(Begins(@, FALSE)) ])

QuickAuthCalled ==
    /\ oidcClient.pc = "idle"
    /\ Becomes([ State EXCEPT !.oidcClient = registerClient(Begins(@, TRUE)) ])

RegisterSettles(answer) ==
    /\ oidcClient.pc = "register"
    /\ Becomes([ State EXCEPT !.oidcClient = registerSettled(@, answer) ])

DeviceAuthorizeCalled ==
    /\ oidcClient.pc = "idle"
    /\ Becomes([ State EXCEPT !.oidcClient = deviceAuthorize(Begins(@, FALSE)) ])

AuthorizeSettles(answer) ==
    /\ oidcClient.pc = "authorize"
    /\ Becomes([ State EXCEPT !.oidcClient = authorizeSettled(@, answer) ])

GetTokenCalled ==
    /\ oidcClient.pc = "idle"
    /\ Becomes([ State EXCEPT !.oidcClient = getToken(Begins(@, FALSE)) ])

TokenSettles(answer) ==
    /\ oidcClient.pc = "token"
    /\ Becomes([ State EXCEPT !.oidcClient = tokenSettled(@, answer) ])

NextAuth ==
    \/ RegisterClientCalled
    \/ QuickAuthCalled
    \/ DeviceAuthorizeCalled
    \/ GetTokenCalled
    \/ \E a \in RegisterAnswers : RegisterSettles(a)
    \/ \E a \in AuthorizeAnswers : AuthorizeSettles(a)
    \/ \E a \in TokenAnswers : TokenSettles(a)

SpecAuth == Init /\ [][NextAuth]_vars

\* ------------------------------------------------------- insertRandomDots
\* A string is the sequence of its characters.  Math.random() is k /
\* RandomDenominator for a k in 0..RandomDenominator - 1.
Letters == {"a", "b"}
Dot == "."
RandomDenominator == 6
Draws == 0..(RandomDenominator - 1)
StringsUpTo(n) == UNION { [ 1..k -> Letters ] : k \in 0..n }

\* chars.splice(at, 0, '.'), at counted from 0.
splice(chars, at) ==
    LET k == Min(at, Len(chars))
    IN  SubSeq(chars, 1, k) \o << Dot >> \o SubSeq(chars, k + 1, Len(chars))
\* positions.splice(idx, 1), idx counted from 0.
without(positions, idx) ==
    SubSeq(positions, 1, idx) \o SubSeq(positions, idx + 2, Len(positions))
\* The indices i of 1..length-1 with no dot at i - 1 and none at i.
InsertablePositions(str) ==
    LET Free(i) == str[i] # Dot /\ str[i + 1] # Dot
        F[i \in 0..Len(str)] ==
            IF i = 0 THEN << >>
            ELSE IF i < Len(str) /\ Free(i) THEN Append(F[i - 1], i) ELSE F[i - 1]
    IN  F[Len(str)]

\* The second loop of insertRandomDots from its turn i on; picks[i + 1] is
\* the draw of that turn.
RECURSIVE insertLoop(_, _, _, _, _)
insertLoop(chars, positions, i, count, picks) ==
    IF i < count /\ Len(positions) > 0
    THEN LET idx == (picks[i + 1] * Len(positions)) \div RandomDenominator
             pos == positions[idx + 1]
         IN  insertLoop(splice(chars, pos + i), without(positions, idx), i + 1, count, picks)
    ELSE chars

insertRandomDots(str, count, picks) ==
    IF Len(str) <= 1 THEN str
    ELSE insertLoop(str, InsertablePositions(str), 0, count, picks)

\* insertRandomDots(str, count) returns, Math.random having given picks.
InsertRandomDotsReturns(picks) ==
    /\ dotsCall.pc = "called"
    /\ Becomes([ State EXCEPT
           !.dotsCall = [ dotsCall EXCEPT
                            !.pc = "returned",
                            !.result = insertRandomDots(dotsCall.str, dotsCall.count, picks) ] ])

\* insertRandomDots called with a dot-free string and a count.
InitDots ==
    /\ Start
    /\ \E str \in StringsUpTo(MaxLen), count \in 1..MaxCount :
          dotsCall = [ pc |-> "called", str |-> str, count |-> count, result |-> << >> ]
    /\ aliasClient = NoAliasClient
    /\ registrationHistory = << >>
    /\ counting = FALSE

NextDots == \E picks \in [ 1..MaxCount -> Draws ] : InsertRandomDotsReturns(picks)

SpecDots == InitDots /\ [][NextDots]_vars

\* ------------------------------------------------------- GmailAliasClient
AliasAttempts == 100
Modes == {"plus", "dot", "case", "mixed", "auto"}
\* The strings a suffix can be, generated or given; 0 is no suffix given.
Suffixes == 1..MaxSuffixes

Lower(ch) == CASE ch = "A" -> "a" [] ch = "B" -> "b" [] OTHER -> ch
Upper(ch) == CASE ch = "a" -> "A" [] ch = "b" -> "B" [] OTHER -> ch
\* String.prototype.toLowerCase, and the same of an address whose suffix is
\* in lower case.
toLowerCase(str) == [ i \in DOMAIN str |-> Lower(str[i]) ]
addressToLowerCase(e) == [ user |-> toLowerCase(e.user), suffix |-> e.suffix ]

\* randomizeCase, up[i] telling whether Math.random() > 0.5 for character i.
randomizeCase(str, up) ==
    [ i \in DOMAIN str |-> IF up[i] THEN Upper(str[i]) ELSE Lower(str[i]) ]

\* The values insertRandomDots can return for one of the counts.
Dotted(str, counts) ==
    UNION { { insertRandomDots(str, n, picks) : picks \in [ 1..n -> Draws ] } : n \in counts }
\* The values randomizeCase can return for one of the strings.
Cased(strs) ==
    UNION { { randomizeCase(str, up) : up \in [ DOMAIN str -> BOOLEAN ] } : str \in strs }
Addresses(users, suffixes) == { [ user |-> u, suffix |-> x ] : u \in users, x \in suffixes }

\* The addresses each variant generator can return for a pureUsername.
generatePlusVariant(pure, customSuffix) ==
    Addresses({pure}, IF customSuffix # 0 THEN {customSuffix} ELSE Suffixes)
generateDotVariant(pure) ==
    Addresses(Dotted(pure, 1..Max(1, Min(3, Len(pure) - 1))), {0})
generateCaseVariant(pure) == Addresses(Cased({pure}), {0})
generateMixedVariant(pure, customSuffix) ==
    LET dotted == IF Len(pure) > 2 THEN {pure} \cup Dotted(pure, 1..2) ELSE {pure}
    IN  Addresses(dotted \cup Cased(dotted),
                  IF customSuffix # 0 THEN {customSuffix} ELSE {0} \cup Suffixes)
generateDotPlusVariant(pure) ==
    Addresses(IF Len(pure) > 2 THEN Dotted(pure, 1..2) ELSE {pure}, Suffixes)
\* counter % 3 === 0 lets Math.random() choose among three generators.
generateAutoVariant(pure, choosing) ==
    IF choosing
    THEN generatePlusVariant(pure, 0) \cup generateMixedVariant(pure, 0)
             \cup generateDotPlusVariant(pure)
    ELSE generatePlusVariant(pure, 0)

\* setBaseEmail(this.baseEmail): lower case, the dots of the user part removed.
setBaseEmail(c) ==
    [ c EXCEPT !.baseEmail = toLowerCase(@),
               !.based = TRUE,
               !.pureUsername = SelectSeq(toLowerCase(c.baseEmail), LAMBDA ch : ch # Dot) ]

\* The base addresses drawn, and the pureUsername of each.
BaseEmails == { << "A", "b" >>, << "a", ".", "b", "a" >> }
PureUsernames ==
    { setBaseEmail([ NoAliasClient EXCEPT !.baseEmail = base ]).pureUsername :
        base \in BaseEmails }

\* What one turn of generateAlias's loop can assign to email, tabulated by
\* pureUsername, mode, suffix and whether counter % 3 is 0.
VariantRows ==
    { [ pure |-> pure, mode |-> mode, suffix |-> suffix, choosing |-> choosing,
        variants |->
            CASE mode = "plus" -> generatePlusVariant(pure, suffix)
              [] mode = "dot" -> generateDotVariant(pure)
              [] mode = "case" -> generateCaseVariant(pure)
              [] mode = "mixed" -> generateMixedVariant(pure, suffix)
              [] OTHER -> generateAutoVariant(pure, choosing) ] :
        pure \in PureUsernames, mode \in Modes, suffix \in {0} \cup Suffixes,
        choosing \in BOOLEAN }
Variants(c, mode, suffix) ==
    (CHOOSE row \in VariantRows :
        /\ row.pure = c.pureUsername
        /\ row.mode = mode
        /\ row.suffix = suffix
        /\ row.choosing = (c.counter % 3 = 0)).variants

\* What the turns of one call assign to email: first in the turns before
\* switch, then in the turns from switch on.
\* The streams drawn: the same address in every turn, or an address of
\* usedVariants in every turn but the last.  (A stream whose first address is
\* not in usedVariants ends the loop in its first turn, whatever would
\* follow.)
Streams(c, mode, suffix) ==
    LET all == Variants(c, mode, suffix)
        used == { e \in all : addressToLowerCase(e) \in c.usedVariants }
    IN  { [ first |-> e, then |-> e, switch |-> 0 ] : e \in all }
            \cup { [ first |-> u, then |-> e, switch |-> AliasAttempts - 1 ] :
                      u \in used, e \in all }

\* The while loop of generateAlias: it ends in the first turn whose email is
\* not in usedVariants, or after AliasAttempts turns with the email of the
\* last one.  has tells for the two addresses of the stream whether
\* usedVariants holds them in lower case (the set does not change before the
\* loop ends); added tells whether the email was added to usedVariants.
aliasLoop(has, stream) ==
    LET Turns == 0..(AliasAttempts - 1)
        Email(a) == IF a < stream.switch THEN stream.first ELSE stream.then
        New(a) == IF a < stream.switch THEN ~has.first ELSE ~has.then
    IN  IF \E a \in Turns : New(a)
        THEN LET a == CHOOSE x \in Turns : New(x) /\ \A y \in 0..(x - 1) : ~New(y)
             IN  [ email |-> Email(a), added |-> TRUE ]
        ELSE [ email |-> Email(AliasAttempts - 1), added |-> FALSE ]

generateAlias(c, stream) ==
    LET has == [ first |-> addressToLowerCase(stream.first) \in c.usedVariants,
                 then |-> addressToLowerCase(stream.then) \in c.usedVariants ]
        end == aliasLoop(has, stream)
    IN  [ c EXCEPT !.usedVariants = IF end.added
                                    THEN @ \cup {addressToLowerCase(end.email)}
                                    ELSE @,
                   !.address = end.email,
                   !.counter = @ + 1,
                   !.issued = Append(@, end.email) ]

SetBaseEmail ==
    /\ aliasClient.baseEmail # << >>
    /\ ~aliasClient.based
    /\ Becomes([ State EXCEPT !.aliasClient = setBaseEmail(@) ])

GenerateAlias(mode, suffix) ==
    /\ aliasClient.based
    /\ aliasClient.counter < MaxAliases
    /\ \E stream \in Streams(aliasClient, mode, suffix) :
          Becomes([ State EXCEPT !.aliasClient = generateAlias(@, stream) ])

CreateInbox(mode, prefix) ==
    /\ aliasClient.baseEmail # << >>
    /\ aliasClient.counter < MaxAliases
    /\ LET c == IF aliasClient.based THEN aliasClient ELSE setBaseEmail(aliasClient)
       IN  \E stream \in Streams(c, mode, prefix) :
              Becomes([ State EXCEPT !.aliasClient = generateAlias(c, stream) ])

\* A client made with a base address.
InitAlias ==
    /\ Start
    /\ dotsCall = NoDotsCall
    /\ \E base \in BaseEmails : aliasClient = [ NoAliasClient EXCEPT !.baseEmail = base ]
    /\ registrationHistory = << >>
    /\ counting = FALSE

NextAlias ==
    \/ SetBaseEmail
    \/ \E mode \in Modes, suffix \in {0} \cup Suffixes : GenerateAlias(mode, suffix)
    \/ \E mode \in Modes, prefix \in {0} \cup Suffixes : CreateInbox(mode, prefix)

SpecAlias == InitAlias /\ [][NextAlias]_vars

\* ---------------------------------------------------- the probe's scenario
\* VALIDATE_TOKEN with an accessToken: validateToken sends the probe.
ValidateTokenStarts ==
    /\ probe.pc = "idle"
    /\ Becomes([ State EXCEPT !.probe = [ NoProbe EXCEPT !.pc = "sent" ] ])

\* The probe is answered (or fails) and validateToken's result is sent back.
ProbeReturns(r) ==
    /\ probe.pc = "sent"
    /\ Becomes([ State EXCEPT !.probe =
           [ pc |-> "answered", http |-> r.http, suspended |-> r.suspended,
             expiry |-> r.expiry, denied |-> r.denied,
             result |-> validateToken(r.http, r.suspended, r.expiry, r.denied) ] ])

NextProbe ==
    \/ ValidateTokenStarts
    \/ \E r \in ProbeResponses : ProbeReturns(r)

SpecProbe == Init /\ [][NextProbe]_vars

\* ------------------------------------------------- the validation scenario
StoredHistory(kinds) == [ i \in DOMAIN kinds |-> StoredRecord(0 - i, kinds[i]) ]

\* A run of three slices, the last one shorter.
LongRun == 2 * ValidateBatchSize + 2

\* Stored histories with 0, 0, 2, ValidateRecords and LongRun records to
\* validate.
ValidateShapes ==
    { << >>,
      << "failure", "noRefresh" >>,
      << "eligible", "failure", "noClient", "noRefresh" >>,
      << "failure" >> \o [ i \in 1..ValidateRecords |-> "eligible" ] \o << "noRefresh" >>,
      [ i \in 1..LongRun |-> "eligible" ] \o << "failure" >> }

\* Answers of the probe that validateToken classifies valid, suspended, error.
ProbeSamples ==
    { CleanResponse,
      [ CleanResponse EXCEPT !.suspended = TRUE ],
      [ CleanResponse EXCEPT !.http = 503 ] }

ValidateResponses ==
    [ refresh : {"ok"}, probe : ProbeSamples ]
        \cup [ refresh : RefreshOutcomes \ {"ok"}, probe : {CleanResponse} ]

\* The long run draws two answers only: all succeeds, or the refresh throws.
LongRunResponses ==
    { [ refresh |-> "ok", probe |-> CleanResponse ],
      [ refresh |-> "throws", probe |-> CleanResponse ] }
ResponsesFor(total) ==
    IF total > ValidateRecords THEN LongRunResponses ELSE ValidateResponses

InitValidate ==
    /\ Start
    /\ NoAliasCalls
    /\ \E kinds \in ValidateShapes : registrationHistory = StoredHistory(kinds)
    /\ counting = TRUE

\* One run per scenario.
StartValidate == ~validation.returned /\ ValidateAllStarts

NextValidate ==
    \/ StartValidate
    \/ \E id \in RecordIds, r \in ResponsesFor(validation.total) :
          RefreshReturns(id, r.refresh, r.probe)
    \/ ValidateDelayDone
    \/ ClearHistory

SpecValidate == InitValidate /\ [][NextValidate]_vars

StartHistory(loopCount) ==
    /\ nextBatch < MaxBatches
    /\ sessionIdCounter + loopCount <= HistorySessions
    /\ StartBatchAccepted(loopCount, 1, "valid")

NextHistory ==
    \/ \E T \in 1..HistorySessions : StartHistory(T)
    \/ ClearHistory
    \/ ValidateAllStarts
    \/ \E id \in RecordIds, r \in HistoryResponses : RefreshReturns(id, r.refresh, r.probe)
    \/ ValidateDelayDone
    \/ \E s \in SessionIds, ok \in BOOLEAN : QuickAuthReturns(s, ok)
    \/ \E s \in SessionIds : ApiCooldownDone(s)
    \/ \E s \in SessionIds, o \in CreateOutcomes : WindowCreateReturns(s, o)
    \/ \E s \in SessionIds, l \in BOOLEAN : TabLoadReturns(s, l)
    \/ \E s \in SessionIds : GetTokenReturns(s)
    \/ \E s \in SessionIds, o \in MissOutcomes, t \in BOOLEAN : PollIntervalDone(s, o, t)
    \/ \E s \in SessionIds : WindowsRemoveReturns(s)
    \/ \E b \in BatchIds, w \in WorkerIds : InterTaskDelayDone(b, w)

SpecHistory == InitHistory /\ [][NextHistory]_vars

\* ------------------------------------------------- the records' scenario
\* A stored history of one success and one failure record, one call of one
\* task, validateAllTokens runs with every answer, and CLEAR_HISTORY.
InitRecords ==
    /\ Start
    /\ NoAliasCalls
    /\ registrationHistory = StoredHistory(<< "eligible", "failure" >>)
    /\ counting = FALSE

StartRecords ==
    /\ nextBatch = 0
    /\ StartBatchAccepted(1, 1, "valid")

NextRecords ==
    \/ StartRecords
    \/ ClearHistory
    \/ ValidateAllStarts
    \/ \E id \in RecordIds, r \in ValidateResponses : RefreshReturns(id, r.refresh, r.probe)
    \/ \E s \in SessionIds : ReportError(s)
    \/ \E s \in SessionIds, ok \in BOOLEAN : QuickAuthReturns(s, ok)
    \/ \E s \in SessionIds : ApiCooldownDone(s)
    \/ \E s \in SessionIds, o \in CreateOutcomes : WindowCreateReturns(s, o)
    \/ \E s \in SessionIds : TabLoadReturns(s, TRUE)
    \/ \E s \in SessionIds : GetTokenReturns(s)
    \/ \E s \in SessionIds, o \in MissOutcomes, t \in BOOLEAN : PollIntervalDone(s, o, t)
    \/ \E s \in SessionIds : WindowsRemoveReturns(s)

SpecRecords == InitRecords /\ [][NextRecords]_vars

\* ================================================================= claims
InApiSection(s) == session[s].pc \in {"inApi", "apiCooldown"}
InWindowSection(s) == session[s].pc \in {"creating", "loading"}
WorkerAlive(b, w) == batch[b].worker[w].pc \in {"stagger", "busy", "delay"}
AnyWorkerAlive == \E b \in BatchIds, w \in WorkerIds : WorkerAlive(b, w)
Resolves(b) == batch[b].state = "running" /\ batch'[b].state = "resolved"
Total(gs) == gs.totalRegistered + gs.totalFailed

\* C1: for each of the two locks, at most one session is between acquiring
\* and releasing it, in every reachable state.
C1_MutualExclusion ==
    /\ Cardinality({ s \in SessionIds : InApiSection(s) }) <= 1
    /\ Cardinality({ s \in SessionIds : InWindowSection(s) }) <= 1

\* C2: when an accepted startBatchRegistration call resolves and neither
\* STOP_REGISTRATION nor RESET was handled since it was accepted,
\* totalRegistered + totalFailed equals its loopCount.
C2_TotalsAtResolve ==
    [][ \A b \in BatchIds :
          (Resolves(b) /\ ~batch[b].stopSeen /\ ~batch[b].resetSeen)
              => Total(globalState') = batch[b].loopCount ]_vars

\* C3: no startBatchRegistration call is accepted while a worker of an
\* earlier accepted call has not returned.
C3_RejectedWhileActive ==
    [][ AnyWorkerAlive => nextBatch' = nextBatch ]_vars

\* C4: in the state right after STOP_REGISTRATION is handled the stop flag is
\* set, the task queue is empty and every session in the Map has pollAbort set.
C4_StopPostState ==
    [][ StopBatch =>
          /\ shouldStop'
          /\ taskQueue' = << >>
          /\ \A s \in sessions' : session'[s].pollAbort ]_vars

C4_Witness ==
    /\ shouldStop
    /\ taskQueue = << >>
    /\ \E s \in sessions : session[s].status = "running" /\ session[s].pollAbort

\* C5: a startBatchRegistration call during which STOP_REGISTRATION was
\* handled never writes status "completed" when it resolves.
C5_StoppedNeverCompleted ==
    [][ \A b \in BatchIds :
          (Resolves(b) /\ batch[b].stopSeen) => globalState'.status # "completed" ]_vars

\* C6: the step that decides a pipeline's outcome either marks the session
\* completed, adds 1 to totalRegistered only and puts one success record at
\* the head of the history, or marks it error with a message, adds 1 to
\* totalFailed only and puts one failure record there; no other step of the
\* pipeline touches the counters it decided, and when the pipeline returns
\* the session's status is the one that goes with the returned boolean.
Decided(s) == session[s].pc \in {"closing", "done"}
SuccessStep(s) ==
    /\ session'[s].ret = "true"
    /\ session'[s].status = "completed"
    /\ globalState'.totalRegistered = globalState.totalRegistered + 1
    /\ globalState'.totalFailed = globalState.totalFailed
    /\ registrationHistory' =
         << [ id |-> s, success |-> TRUE, error |-> "null", tokenStatus |-> "unknown",
              token |-> "stored" ] >>
             \o registrationHistory
FailureStep(s) ==
    /\ session'[s].ret = "false"
    /\ session'[s].status = "error"
    /\ globalState'.totalFailed = globalState.totalFailed + 1
    /\ globalState'.totalRegistered = globalState.totalRegistered
    /\ registrationHistory' =
         << [ id |-> s, success |-> FALSE, error |-> session'[s].error,
              tokenStatus |-> "null",
              token |-> "null" ] >>
             \o registrationHistory
ReturnsConsistent(s) ==
    \/ session'[s].ret = "true" /\ session'[s].status = "completed"
    \/ session'[s].ret = "false" /\ session'[s].status = "error"
C6_OneOutcome ==
    [][ \A s \in SessionIds :
          /\ (~Decided(s) /\ Decided(s)') => (SuccessStep(s) \/ FailureStep(s))
          /\ (session[s].pc # "done" /\ session'[s].pc = "done") => ReturnsConsistent(s) ]_vars

\* C7: when a pipeline has returned, the window created for its session is
\* closed and the session's mailClient is null.
C7_ClosedAtReturn ==
    \A s \in SessionIds :
        session[s].pc = "done" => (s \notin openWindows /\ ~session[s].mailClient)

\* C8: the history never holds more than HistoryCap records, and every step
\* either keeps the records and their order, empties the list, or puts one
\* new record at the head in front of the records it held, of which only
\* the last is dropped, and only when HistoryCap were held.
C8_HistoryBounded ==
    /\ [](Len(registrationHistory) <= HistoryCap)
    /\ [][ LET old == Ids(registrationHistory)
               new == Ids(registrationHistory')
           IN  \/ new = old
               \/ new = << >>
               \/ /\ Len(new) = Min(Len(old) + 1, HistoryCap)
                  /\ \A i \in DOMAIN old : old[i] # new[1]
                  /\ SubSeq(new, 2, Len(new)) = SubSeq(old, 1, Len(new) - 1) ]_vars

C8_Witness ==
    /\ Len(registrationHistory) = HistoryCap
    /\ registrationHistory[1].id >= 1
    /\ registrationHistory[2].id >= 1
    /\ registrationHistory[HistoryCap].id = 2 - HistoryCap

\* C9: a pollSessionToken run that was neither cancelled nor timed out and got
\* a credential after k pending or failing getToken calls made exactly k + 1
\* calls, and its session ends completed.
C9_CredentialAfterMisses ==
    \A s \in SessionIds :
        /\ (session[s].pc = "closing" /\ session[s].ret = "true")
              => (session[s].attempts = session[s].misses + 1
                  /\ session[s].status = "completed")
        /\ (session[s].pc = "done" /\ session[s].ret = "true")
              => session[s].status = "completed"

\* C10: while pollAbort or shouldStop is set and stays set, the session's
\* poller makes no further getToken call: from the call in flight it goes to
\* the end of the pipeline.
Cancelled(s) == session[s].pollAbort \/ shouldStop
StatusMoves ==
    { <<"none", "pending">>, <<"none", "running">>, <<"pending", "running">>,
      <<"running", "polling_token">>, <<"running", "error">>,
      <<"polling_token", "completed">>, <<"polling_token", "error">> }
C11_SessionStatusPath ==
    [][ \A s \in SessionIds :
          session'[s].status # session[s].status =>
              /\ << session[s].status, session'[s].status >> \in StatusMoves
              /\ session'[s].pc # session[s].pc ]_vars

\* C12: in every reachable state whose status is running, the two totals are
\* not negative and their sum is at most totalTarget.
C12_TotalsWithinTarget ==
    globalState.status = "running" =>
        /\ globalState.totalRegistered >= 0
        /\ globalState.totalFailed >= 0
        /\ Total(globalState) <= globalState.totalTarget

\* C13: globalState.status changes only from idle to running when a
\* startBatchRegistration call is accepted (the call may pass its join in the
\* same step), and from running to completed or to idle.
Accepts == nextBatch' # nextBatch
C13_GlobalStatusPath ==
    [][ IF Accepts
        THEN globalState.status = "idle"
             /\ globalState'.status \in {"running", "completed", "idle"}
        ELSE \/ globalState'.status = globalState.status
             \/ globalState.status = "running"
                /\ globalState'.status \in {"completed", "idle"} ]_vars

\* ---------------------------------------------------------- validation runs
CeilDiv(n, d) == (n + d - 1) \div d
NonDecreasing(events) ==
    \A i, j \in DOMAIN events : i <= j => events[i].validated <= events[j].validated
EndsAt(events, n) ==
    events # << >> =>
        /\ events[Len(events)].validated = n
        /\ events[Len(events)].total = n
Eligible(h) == Len(SelectSeq(h, HasToken))

\* C14 as stated: a run over N records to validate that has returned sent
\* exactly ceil(N/5) VALIDATION_PROGRESS messages (none for N = 0), validated
\* never decreasing across them, the last one with validated = total = N.
C14_ProgressEvents ==
    validation.returned =>
        /\ Len(validation.events) = CeilDiv(validation.total, ValidateBatchSize)
        /\ NonDecreasing(validation.events)
        /\ EndsAt(validation.events, validation.total)

\* C14 amended: a run over N > 0 records that has returned sent exactly
\* ceil(N/5) + 1 VALIDATION_PROGRESS messages, the first one with
\* validated = 0 before any record is processed and one more after each
\* slice; validated never decreases and the last one has
\* validated = total = N.  A run over no record sends none.
C14_ProgressEventsWithStart ==
    validation.returned =>
        /\ Len(validation.events) =
              IF validation.total = 0 THEN 0
              ELSE CeilDiv(validation.total, ValidateBatchSize) + 1
        /\ validation.total > 0 => validation.events[1].validated = 0
        /\ \A i \in DOMAIN validation.events :
              /\ validation.events[i].total = validation.total
              /\ i > 1 => validation.events[i].validated =
                             Min((i - 1) * ValidateBatchSize, validation.total)
        /\ NonDecreasing(validation.events)
        /\ EndsAt(validation.events, validation.total)

C14_Witness ==
    /\ validation.returned
    /\ validation.total = ValidateRecords
    /\ Len(validation.events) = CeilDiv(ValidateRecords, ValidateBatchSize) + 1
    /\ validation.events[Len(validation.events)].validated = ValidateRecords

\* C15: the records to validate are taken in consecutive slices of 5, the
\* last one holding the rest; the calls of a slice start only when every
\* call of the slices before has settled and been counted; each record is
\* started once; and the aggregate of a run that has returned has
\* valid + expired + suspended + invalid + error = total = N.
TallySum(v) ==
    v.tally.valid + v.tally.expired + v.tally.suspended + v.tally.invalid + v.tally.error
StartedOnce(v) ==
    /\ v.started = Prefix(v.all, Len(v.started))
    /\ \A i, j \in DOMAIN v.started : v.started[i] = v.started[j] => i = j
    /\ \A id \in DOMAIN v.results :
          v.results[id].status = "queued" <=> id \notin Range(v.started)
C15_BatchesOfFive ==
    /\ [](/\ StartedOnce(validation)
          /\ validation.pc = "batch" =>
                Len(validation.started) =
                    Min(validation.validated + ValidateBatchSize, validation.total)
          /\ validation.pc # "batch" => Len(validation.started) = validation.validated
          /\ validation.returned =>
                /\ validation.started = validation.all
                /\ validation.validated = validation.total
                /\ TallySum(validation) = validation.total
                /\ validation.total = Len(validation.all))
    /\ [][ Len(validation'.started) > Len(validation.started) =>
             /\ \A id \in Range(validation.started) :
                   validation.results[id].status \notin {"queued", "pending"}
             /\ Len(validation.started) = validation.validated
             /\ Len(validation'.started) - Len(validation.started) =
                   Min(ValidateBatchSize, validation'.total - Len(validation.started))
             /\ validation'.total = Eligible(registrationHistory) \/ validation.pc = "delay"
          ]_vars

\* A run over 12 records that has returned after slices of 5, 5 and 2.
C15_Witness ==
    /\ validation.returned
    /\ validation.total = LongRun
    /\ validation.started = validation.all
    /\ [ i \in DOMAIN validation.events |-> validation.events[i].validated ]
          = << 0, ValidateBatchSize, 2 * ValidateBatchSize, LongRun >>
    /\ TallySum(validation) = LongRun
    /\ validation.tally.valid > 0
    /\ validation.tally.error > 0

\* C16: the status validateToken answers follows the precedence: suspension
\* marker, suspended; else HTTP 401 or an expiry marker, expired; else an
\* access-denied, validation or not-found marker, invalid; else an HTTP
\* success, valid; else HTTP 500 and above or a network failure, error;
\* else invalid.  A network failure carries no response text.
C16_Precedence ==
    probe.pc = "answered" =>
        probe.result =
            IF probe.http # NetworkFailure /\ probe.suspended THEN "suspended"
            ELSE IF probe.http # NetworkFailure /\ (probe.http = 401 \/ probe.expiry)
            THEN "expired"
            ELSE IF probe.http # NetworkFailure /\ probe.denied THEN "invalid"
            ELSE IF probe.http \in 200..299 THEN "valid"
            ELSE IF probe.http >= 500 \/ probe.http = NetworkFailure THEN "error"
            ELSE "invalid"

C16_Witness ==
    /\ probe.pc = "answered"
    /\ probe.http = 401
    /\ probe.suspended
    /\ probe.result = "suspended"

\* C17: when the call of a record settles, a refresh that succeeded has
\* put the new pair in the record whatever status the probe gave; a refresh
\* that failed gives expired on invalid_grant and error otherwise, leaves the
\* record's pair as it was, and no probe was made.
SettlesFor(id) ==
    /\ id \in DOMAIN validation.results
    /\ id \in DOMAIN validation'.results
    /\ validation.results[id].status = "pending"
    /\ validation'.results[id].status # "pending"
Holds(h, id) == \E i \in DOMAIN h : h[i].id = id
Position(q, x) == CHOOSE i \in DOMAIN q : q[i] = x
TokenStatuses == {"valid", "expired", "suspended", "invalid", "error"}
NotValid(v) ==
    LET bad(id) == v.results[id].status # "valid"
        ids == SelectSeq(v.all, bad)
    IN  [ k \in DOMAIN ids |-> [ id |-> ids[k], status |-> v.results[ids[k]].status ] ]
C18_FailuresContained ==
    /\ [](validation.returned =>
             /\ validation.validated = validation.total
             /\ DOMAIN validation.results = Range(validation.all)
             /\ \A id \in Range(validation.all) :
                   LET result == validation.results[id]
                   IN  /\ result.status \in TokenStatuses
                       /\ result.refresh \in {"rejected", "throws"} => result.status = "error"
                       /\ \A i \in DOMAIN registrationHistory :
                             registrationHistory[i].id = id =>
                                 registrationHistory[i].tokenStatus = result.status
             /\ validation.details = NotValid(validation))
    /\ [][ \A i \in DOMAIN registrationHistory, j \in DOMAIN registrationHistory' :
             (registrationHistory[i].id = registrationHistory'[j].id
                 /\ ~HasToken(registrationHistory[i]))
                 => registrationHistory'[j] = registrationHistory[i] ]_vars

C18_Witness ==
    /\ validation.returned
    /\ validation.total = ValidateRecords
    /\ \E a, b, c \in Range(validation.all) :
          /\ validation.results[a].refresh = "throws"
          /\ validation.results[b].refresh = "rejected"
          /\ validation.results[c].status = "valid"
          /\ Holds(registrationHistory, a)
          /\ Position(validation.all, a) < Position(validation.all, c)
    /\ Len(validation.details) < ValidateRecords
    /\ \E i \in DOMAIN registrationHistory : ~HasToken(registrationHistory[i])

\* C19: when an accepted startBatchRegistration call resolves, the worker
\* whose return it follows was the last one alive, every session the call's
\* workers created has its pipeline returned and is completed or error; and
\* while the call has not resolved and no RESET was handled since it was
\* accepted, globalState.status is running.
AllReturned(b) ==
    /\ Cardinality({ w \in WorkerIds : WorkerAlive(b, w) }) = 1
    /\ \A s \in SessionIds :
          session'[s].createdBy = b =>
              /\ session'[s].pc = "done"
              /\ session'[s].status \in {"completed", "error"}
C19_JoinAfterWorkers ==
    /\ [][ \A b \in BatchIds : Resolves(b) => AllReturned(b) ]_vars
    /\ [](\A b \in BatchIds :
             (batch[b].state = "running" /\ ~batch[b].resetSeen)
                 => globalState.status = "running")

\* C20: with every collaborator call settling and every timer firing, every
\* accepted startBatchRegistration call resolves, whichever of its sessions
\* fail and wherever they fail.
C20_BatchResolves ==
    \A b \in BatchIds : (batch[b].state = "running") ~> (batch[b].state = "resolved")

\* A call that resolved without a stop, one of its two sessions having
\* failed at chrome.windows.create and the other one completed.
C20_Witness ==
    /\ batch[1].state = "resolved"
    /\ ~shouldStop
    /\ \E s, x \in sessions :
          /\ session[s].createdBy = 1
          /\ session[s].status = "error"
          /\ session[s].error = "window"
          /\ session[x].createdBy = 1
          /\ session[x].status = "completed"

\* C21: on each lock, a session that began waiting before another one starts
\* its guarded operation no later than the other: when the later waiter is
\* resumed the earlier one is resumed too and is inside the section, and the
\* continuations run in arrival order, so the lock variable ends up holding
\* the promise of the latest arrival, not that of an earlier one.
Earlier(q, a, b) == \E i, j \in DOMAIN q : i < j /\ q[i] = a /\ q[j] = b
ServedInOrder(q, lock, section) ==
    \A a, b \in SessionIds :
        (Earlier(q, a, b) /\ b \notin Range(q'))
            => /\ a \notin Range(q')
               /\ session'[a].pc = section
               /\ session'[b].pc = section
               /\ lock' # a
C21_FifoOrder ==
    [][ /\ ServedInOrder(apiWaiters, apiCallLock, "inApi")
        /\ ServedInOrder(winWaiters, windowCreationLock, "creating") ]_vars

\* Two sessions that waited on the window lock have been resumed, the one
\* that arrived last having stored its promise last.
C21_Witness ==
    /\ winWaiters = << >>
    /\ \E a, b \in SessionIds :
          /\ a < b
          /\ session[a].pc = "creating"
          /\ session[b].pc = "creating"
          /\ windowCreationLock = b

\* C22: a guarded API call starts only when no other session is inside its
\* guarded call or inside the cool-down that follows it.
C22_CooldownBetweenCalls ==
    [][ \A s, x \in SessionIds :
          (s # x /\ session[s].pc # "inApi" /\ session'[s].pc = "inApi")
              => session'[x].pc \notin {"inApi", "apiCooldown"} ]_vars

\* C23: in every reachable state a session whose status is completed or
\* error is inside neither guarded section and the lock variables do not hold
\* its promise.
C23_TerminalHoldsNoLock ==
    \A s \in SessionIds :
        session[s].status \in {"completed", "error"}
            => /\ ~InApiSection(s)
               /\ ~InWindowSection(s)
               /\ apiCallLock # s
               /\ windowCreationLock # s

\* C23, second half: with every collaborator call settling, a session
\* suspended on either lock is eventually resumed.
C23_WaitersGranted ==
    \A s \in SessionIds :
        (session[s].pc \in {"waitApi", "waitWin"})
            ~> (session[s].pc \notin {"waitApi", "waitWin"})

\* C24: from the return of resetState until the next accepted call to
\* startBatchRegistration, the sessions Map and the task queue are empty and
\* globalState is the zeroed one.
C24_ResetStaysZeroed ==
    resetDone => /\ sessions = {}
                 /\ taskQueue = << >>
                 /\ globalState = IdleGlobalState

\* C25: from the return of resetState until the next accepted call to
\* startBatchRegistration, no incognito window created by a pipeline is open.
C25_NoWindowAfterReset ==
    resetDone => openWindows = {}

\* C26: when an accepted startBatchRegistration call resolves and neither
\* STOP_REGISTRATION nor RESET was ever sent, globalState.status becomes
\* completed; and if the pipeline of every session the call created returned
\* true (grant issued, window valid, credential returned), totalRegistered is
\* the call's loopCount and totalFailed is 0.
AllSucceeded(b) ==
    \A s \in SessionIds : session'[s].createdBy = b => session'[s].ret = "true"
C26_UndisturbedBatch ==
    [][ \A b \in BatchIds :
          Resolves(b)
              => /\ globalState'.status = "completed"
                 /\ AllSucceeded(b)
                        => /\ globalState'.totalRegistered = batch[b].loopCount
                           /\ globalState'.totalFailed = 0 ]_vars

\* The call of the scenario, StartBatch(3, 2), has resolved with 3 and 0.
C26_Witness ==
    /\ batch[1].state = "resolved"
    /\ globalState.status = "completed"
    /\ globalState.totalTarget = 3
    /\ globalState.totalRegistered = 3
    /\ globalState.totalFailed = 0
    /\ \A s \in 1..3 : session[s].createdBy = 1 /\ session[s].ret = "true"

\* C27: when chrome.windows.create resolves to nothing, to a window without
\* an id or to a window without tabs, the step that handles the result ends
\* the pipeline: the session is error with the window-creation message, its
\* pipeline has returned false, totalFailed grew by one and totalRegistered
\* not at all, the window lock no longer holds the session's promise and
\* nobody awaits it, and the worker that ran the session goes on to its
\* inter-task delay when the queue holds a task and no stop was requested.  A
\* session with that message is never polling.
InvalidWindows == { "noTabs", "noId", "null" }
WorkerGoesOn(s) ==
    \A b \in BatchIds, w \in WorkerIds :
        ( /\ batch[b].worker[w].pc = "busy"
          /\ batch[b].worker[w].session = s
          /\ ~shouldStop
          /\ taskQueue # << >> )
            => /\ batch'[b].worker[w].pc = "delay"
               /\ taskQueue' = taskQueue
C27_InvalidWindowFails ==
    /\ [][ \A s \in SessionIds, o \in InvalidWindows :
             WindowCreateReturns(s, o)
                 => /\ session'[s].status = "error"
                    /\ session'[s].pc = "done"
                    /\ session'[s].ret = "false"
                    /\ s \in sessions => session'[s].error = "window"
                    /\ globalState'.totalFailed = globalState.totalFailed + 1
                    /\ globalState'.totalRegistered = globalState.totalRegistered
                    /\ windowCreationLock' # s
                    /\ \A x \in SessionIds : session'[x].awaiting # s
                    /\ WorkerGoesOn(s) ]_vars
    /\ [](\A s \in SessionIds :
             session[s].error = "window"
                 => session[s].status = "error" /\ session[s].pc = "done")

\* A single worker's first session failed on a window without tabs and the
\* session of the next task has completed.
C27_Witness ==
    /\ batch[1].state = "resolved"
    /\ globalState.totalTarget = 2
    /\ globalState.totalFailed = 1
    /\ globalState.totalRegistered = 1
    /\ session[1].status = "error"
    /\ session[1].error = "window"
    /\ session[1].windowId = 0
    /\ 1 \in openWindows
    /\ session[2].status = "completed"
    /\ session[2].createdBy = 1

\* C28: when waitForTabLoad rejects (time-out or tab gone), the step that
\* follows leaves the session exactly where a successful load leaves it: the
\* window lock no longer holds the session's promise and nobody awaits it,
\* and unless a stop or a cancellation ends the poll loop before its first
\* round, the session is polling_token with its first getToken call made and
\* no error message.  A session whose load wait rejected is in error only
\* with a message other than the window-creation one.
SameButLoadFailed(a, b, s) == [ a EXCEPT !.session[s].loadFailed = FALSE ] = b
C28_LoadTimeoutNonFatal ==
    /\ [][ \A s \in SessionIds :
             TabLoadReturns(s, FALSE)
                 => /\ windowCreationLock' # s
                    /\ \A x \in SessionIds : session'[x].awaiting # s
                    /\ (~shouldStop /\ ~session[s].pollAbort)
                           => /\ session'[s].status = "polling_token"
                              /\ session'[s].pc = "fetch"
                              /\ session'[s].attempts = 1
                              /\ session'[s].error = session[s].error
                              /\ globalState' = globalState ]_vars
    /\ [](\A s \in SessionIds :
             /\ session[s].pc = "loading"
                    => SameButLoadFailed(tabLoadSettled(State, s, FALSE),
                                         tabLoadSettled(State, s, TRUE), s)
             /\ session[s].loadFailed => session[s].error # "window")

\* A session whose load wait rejected has polled and received its credential.
C28_Witness ==
    \E s \in sessions :
        /\ session[s].loadFailed
        /\ session[s].status = "completed"
        /\ session[s].token
        /\ session[s].error = "null"

\* C29: a taskIndex a worker has popped is no longer in the queue and no
\* other session was created for it; every session that exists has its one
\* pipeline run, which once returned never runs again, and keeps the task it
\* was created for; the sessions created for the tasks of a call are never
\* more than its loopCount, are exactly loopCount when the call resolves with
\* neither STOP_REGISTRATION nor RESET handled since it was accepted, and
\* none is added after the call has resolved.
SessionsOf(ss, b) == { s \in SessionIds : ss[s].taskOf = b }
C29_OneSessionPerTask ==
    /\ [](\A s, x \in SessionIds :
             (s # x /\ session[s].taskOf # 0 /\ session[s].taskOf = session[x].taskOf)
                 => session[s].task # session[x].task)
    /\ [](\A s \in SessionIds :
             /\ session[s].taskOf = nextBatch
                    => \A i \in DOMAIN taskQueue : taskQueue[i] # session[s].task
             /\ session[s].status # "none"
                    => session[s].taskOf # 0 /\ session[s].pc \notin {"none", "start"})
    /\ [](\A b \in BatchIds :
             batch[b].state = "running"
                 => Cardinality(SessionsOf(session, b)) <= batch[b].loopCount)
    /\ [][ /\ \A s \in SessionIds :
                /\ session[s].pc = "done" => session'[s].pc = "done"
                /\ session[s].taskOf # 0
                       => /\ session'[s].taskOf = session[s].taskOf
                          /\ session'[s].task = session[s].task
           /\ \A b \in BatchIds :
                /\ (Resolves(b) /\ ~batch[b].stopSeen /\ ~batch[b].resetSeen)
                       => Cardinality(SessionsOf(session', b)) = batch[b].loopCount
                /\ batch[b].state = "resolved"
                       => SessionsOf(session', b) = SessionsOf(session, b) ]_vars

\* The second call has resolved unstopped with a session for each of its two
\* tasks, one of them created by the worker of the first call, which outlived
\* a RESET.
C29_Witness ==
    /\ batch[2].state = "resolved"
    /\ ~shouldStop
    /\ Cardinality(SessionsOf(session, 2)) = 2
    /\ \E s \in SessionIds : session[s].taskOf = 2 /\ session[s].createdBy = 1

\* The callbacks the browser can deliver for an open incognito window: the
\* window was removed, or tab t of it started loading.
Callbacks ==
    { [ kind |-> "removed", w |-> w, t |-> 0 ] : w \in openWindows }
        \cup { [ kind |-> "updated", w |-> w, t |-> t ] : w \in openWindows, t \in TabIds }
Apply(st, c) ==
    IF c.kind = "removed" THEN onRemoved(st, c.w) ELSE onUpdated(st, c.w, c.t)
Matches(x, c) == x \in sessions /\ session[x].windowId = c.w
\* What a callback may change: of the matching session, both windowId and
\* tabId to null when the window was removed, the tabId when a tab was updated.
Narrow(c) ==
    LET r == Apply(State, c)
    IN  /\ [ r EXCEPT !.session = session ] = State
        /\ \A x \in SessionIds :
              IF ~Matches(x, c) THEN r.session[x] = session[x]
              ELSE IF c.kind = "removed"
              THEN r.session[x] = [ session[x] EXCEPT !.windowId = 0, !.tabId = 0 ]
              ELSE r.session[x] = [ session[x] EXCEPT !.tabId = c.t ]
Idempotent(c) == Apply(Apply(State, c), c) = Apply(State, c)
Commute(c, d) == Apply(Apply(State, c), d) = Apply(Apply(State, d), c)
RivalTabs(c, d) ==
    c.kind = "updated" /\ d.kind = "updated" /\ c.w = d.w /\ c.t # d.t
\* A step of either listener leaves everything but the two fields as it was.
CallbackStepNarrow ==
    (\E w \in SessionIds : WindowClosed(w) \/ \E t \in TabIds : TabUpdated(w, t))
        => /\ UNCHANGED << globalState, taskQueue, registrationHistory, sessions,
                           isRunning, shouldStop, batch >>
           /\ \A x \in SessionIds :
                 [ session'[x] EXCEPT !.windowId = session[x].windowId,
                                      !.tabId = session[x].tabId ] = session[x]

\* C30: the windows.onRemoved listener changes only windowId and tabId of the
\* session that records the removed window, both to null, the tabs.onUpdated
\* listener only the tabId of the session that records the tab's window, and
\* neither changes anything when no session of the Map records the window;
\* either applied twice gives what it gives applied once; and any two
\* callbacks applied in either order give the same state.
C30_NarrowIdempotentCommutative ==
    /\ [](\A c \in Callbacks : Narrow(c) /\ Idempotent(c))
    /\ [](\A c, d \in Callbacks : Commute(c, d))
    /\ [][CallbackStepNarrow]_vars

\* C30 as the code has it: the same, except that two tabs.onUpdated callbacks
\* for one window with different tab ids do not commute: the session records
\* the tab of the one applied last.
C30_NarrowIdempotentLastTabWins ==
    /\ [](\A c \in Callbacks : Narrow(c) /\ Idempotent(c))
    /\ [](\A c, d \in Callbacks :
             IF RivalTabs(c, d)
             THEN \A x \in SessionIds :
                     Matches(x, c) => Apply(Apply(State, c), d).session[x].tabId = d.t
             ELSE Commute(c, d))
    /\ [][CallbackStepNarrow]_vars

\* A session that is polling has recorded a tab other than the first one of
\* its window, and another window is open that no session of the Map records.
C30_Witness ==
    \E s \in sessions, w \in openWindows :
        /\ session[s].windowId = s
        /\ session[s].tabId # FirstTab
        /\ session[s].tabId # 0
        /\ session[s].status = "polling_token"
        /\ findSessionByWindowId(State, w) = {}

\* What a GET_VERIFICATION_CODE request does in the step that receives it.
RequestStep(r) ==
    LET q == codeRequests'[r]
        s == q.session
    IN  /\ session' = session
        /\ IF s = 0
           THEN q.pc = "returned" /\ ~q.success /\ ~q.contacted
           ELSE IF session[s].verificationCode # 0
           THEN /\ q.pc = "returned"
                /\ q.success
                /\ q.code = session[s].verificationCode
                /\ ~q.contacted
           ELSE IF gmailApiAuthorized
           THEN q.pc = "fetching"
           ELSE q.pc = "returned" /\ ~q.success /\ q.manual /\ ~q.contacted
\* What it does in the step in which fetchVerificationCode settles.
FetchStep(r, o) ==
    LET q == codeRequests'[r]
        s == codeRequests[r].session
    IN  /\ q.pc = "returned"
        /\ IF o \in Codes
           THEN /\ q.success
                /\ q.code = o
                /\ session'[s].verificationCode = o
           ELSE ~q.success /\ q.manual /\ session' = session
\* A code the session holds is the one every later request finds there.
CodeKept ==
    \A s \in SessionIds :
        session[s].verificationCode # 0
            => session'[s].verificationCode = session[s].verificationCode

\* C31: a GET_VERIFICATION_CODE request for a session that holds a code is
\* answered with that code and fetchVerificationCode is not called; otherwise
\* it succeeds only when gmailApiAuthorized is set and fetchVerificationCode
\* finds a code, which the session then holds, and holds from then on, so
\* that later requests are answered with the same code; every other request
\* fails, asks for manual entry when a session was found and leaves the
\* sessions as they are.
C31_VerificationCode ==
    [][ /\ \A r \in RequestIds, w \in SessionIds \cup {0} :
              GetVerificationCode(r, w) => RequestStep(r)
        /\ \A r \in RequestIds, o \in FetchOutcomes :
              FetchReturns(r, o) => FetchStep(r, o)
        /\ CodeKept ]_vars

\* C31 without the code being kept: what each request returns and stores.
C31_EachRequest ==
    [][ /\ \A r \in RequestIds, w \in SessionIds \cup {0} :
              GetVerificationCode(r, w) => RequestStep(r)
        /\ \A r \in RequestIds, o \in FetchOutcomes :
              FetchReturns(r, o) => FetchStep(r, o) ]_vars

\* The text the catch block of runSessionRegistration composes from the
\* thrown error's message.
ErrorText == "failure"
\* The pipeline of session s returns false in this step.
EndsFatally(s) ==
    /\ session[s].pc # "done"
    /\ session'[s].pc = "done"
    /\ session'[s].ret = "false"

\* C32: once the pipeline of a session has ended in the catch block,
\* globalState.step is the text describing that failure.
C32_StepCarriesLastError ==
    [][ \A s \in SessionIds : EndsFatally(s) => globalState'.step = ErrorText ]_vars

\* globalState.step is one of the start, progress, stop and join texts.
StepIsProgressText == globalState.step \in StepTexts

\* The sessions whose runSessionRegistration call has not returned.
Executing == { s \in SessionIds : session[s].pc \notin {"none", "done"} }
\* The number of workers the call b spawned.
Spawned(b) == Cardinality({ w \in WorkerIds : batch[b].worker[w].pc # "none" })
\* The sessions whose pipeline the worker w of the call b is awaiting.
Drives(b, w) ==
    { s \in Executing : batch[b].worker[w].pc = "busy" /\ batch[b].worker[w].session = s }

\* C33: while the most recently accepted startBatchRegistration call awaits
\* its workers, at most as many pipelines are executing as that call spawned
\* workers, and every executing pipeline is awaited by exactly one worker,
\* which awaits no other.
C33_AtMostConcurrency ==
    /\ (nextBatch > 0 /\ batch[nextBatch].state = "running")
           => Cardinality(Executing) <= Spawned(nextBatch)
    /\ \A s \in Executing :
           Cardinality({ bw \in BatchIds \X WorkerIds : s \in Drives(bw[1], bw[2]) }) = 1
    /\ \A b \in BatchIds, w \in WorkerIds : Cardinality(Drives(b, w)) <= 1

\* Each worker drives one session at a time, and each executing pipeline has
\* its worker.
OneSessionPerWorker ==
    /\ \A s \in Executing :
           Cardinality({ bw \in BatchIds \X WorkerIds : s \in Drives(bw[1], bw[2]) }) = 1
    /\ \A b \in BatchIds, w \in WorkerIds : Cardinality(Drives(b, w)) <= 1

\* Within one call: the pipelines of the sessions a call created are at most
\* as many as its workers.
WithinOneCall ==
    \A b \in BatchIds :
        batch[b].state = "running"
            => Cardinality({ s \in Executing : session[s].createdBy = b }) <= Spawned(b)

\* A turn of runWorker's loop is taken in this step.
LoopTurn ==
    \E b \in BatchIds, w \in WorkerIds : WorkerStaggerDone(b, w) \/ InterTaskDelayDone(b, w)
\* The sessions the step takes out of the Map.
Pruned == sessions \ sessions'

\* C34: the pruning a worker does before it creates a session takes out of
\* the Map only sessions whose pipeline has returned, so that a session whose
\* pipeline is executing and which was in the Map is still in it afterwards.
C34_PruneOnlyReturned ==
    [][ LoopTurn => \A s \in Pruned : session[s].pc = "done" ]_vars

\* The pruning takes out only sessions whose pipeline has decided its outcome.
PruneOnlyDecided ==
    [][ LoopTurn => \A s \in Pruned : Decided(s) ]_vars

\* The pruning takes out only sessions whose status is completed or error.
PruneByStatus ==
    [][ LoopTurn => \A s \in Pruned : session[s].status \in {"completed", "error"} ]_vars

\* The worker w of the call b has returned (the join clears the workers).
Returned(b, w) == batch'[b].worker[w].pc \in {"ended", "none"}
\* The worker w of the call b comes to the test of its loop in this step: its
\* stagger delay or its inter-task delay ends, or the pipeline it awaits
\* returns.
AtLoopTest(b, w) ==
    \/ WorkerStaggerDone(b, w)
    \/ InterTaskDelayDone(b, w)
    \/ /\ batch[b].worker[w].pc = "busy"
       /\ session[batch[b].worker[w].session].pc # "done"
       /\ session'[batch[b].worker[w].session].pc = "done"

\* C35: STOP_REGISTRATION sets the stop flag, which stays set until a
\* startBatchRegistration call is accepted; while it is set and no call is
\* accepted, no step takes a task from the queue or creates a session, and a
\* worker that comes to the test of its loop returns.
C35_NothingStartsAfterStop ==
    [][ /\ StopBatch => shouldStop' /\ taskQueue' = << >>
        /\ (shouldStop /\ nextBatch' = nextBatch)
               => /\ shouldStop'
                  /\ taskQueue' = << >>
                  /\ sessionIdCounter' = sessionIdCounter
                  /\ \A s \in SessionIds : session[s].pc = "none" => session'[s].pc = "none"
                  /\ \A b \in BatchIds, w \in WorkerIds : AtLoopTest(b, w) => Returned(b, w) ]_vars

\* A call of two tasks and two workers that was stopped while worker 0 was
\* awaiting the first pipeline and worker 1 was in its stagger delay: worker 0
\* has returned, one session only was created.
C35_Witness ==
    /\ nextBatch = 1
    /\ batch[1].state = "running"
    /\ batch[1].stopSeen /\ ~batch[1].resetSeen
    /\ batch[1].loopCount = 2
    /\ batch[1].worker[0].pc = "ended"
    /\ batch[1].worker[1].pc = "stagger"
    /\ sessionIdCounter = 1
    /\ shouldStop

\* A record as saveToHistory and validateAllTokens leave it.
WellFormed(r) ==
    IF r.success
    THEN r.error = "null" /\ r.tokenStatus \in TokenStatuses \cup {"unknown"}
    ELSE r.token = "null" /\ r.tokenStatus = "null" /\ r.error # "null"
\* The record with this id, in a history that holds it.
RecordOf(h, id) == h[CHOOSE i \in DOMAIN h : h[i].id = id]
\* A validateAllTokens handler writes a record in this step.
SettlesInStep == \E id \in RecordIds, r \in ValidateResponses : RefreshReturns(id, r.refresh, r.probe)

\* C36: every record of registrationHistory that is a failure has no token,
\* no tokenStatus and an error message, and every record that is a success
\* has no error and a tokenStatus among unknown, valid, expired, suspended,
\* invalid and error; a record enters the history with tokenStatus unknown
\* (null for a failure) and its tokenStatus changes only in a step of
\* validateAllTokens.
C36_RecordsWellFormed ==
    /\ [](\A i \in DOMAIN registrationHistory : WellFormed(registrationHistory[i]))
    /\ [][ \A id \in RecordIds :
              Holds(registrationHistory', id)
                  => IF Holds(registrationHistory, id)
                     THEN \/ RecordOf(registrationHistory', id).tokenStatus
                                 = RecordOf(registrationHistory, id).tokenStatus
                          \/ SettlesInStep
                     ELSE RecordOf(registrationHistory', id).tokenStatus
                              \in {"unknown", "null"} ]_vars

\* The history holds a failure record a pipeline wrote, a success record a
\* pipeline could have written and validateAllTokens found suspended.
C36_Witness ==
    /\ Len(registrationHistory) = 3
    /\ ~registrationHistory[1].success
    /\ registrationHistory[1].id = 1
    /\ registrationHistory[1].error = "window"
    /\ registrationHistory[2].success
    /\ registrationHistory[2].tokenStatus = "suspended"

\* The fields of the client object.
Fields(c) == << c.clientId, c.clientSecret, c.deviceCode, c.userCode, c.interval >>
Thrown == {"guard", "refused", "syntax", "network"}

\* C37: deviceAuthorize called before any registerClient has returned throws
\* without a fetch and leaves every field as it was; getToken called before
\* any deviceAuthorize has returned throws without a fetch; quickAuth contacts
\* the register endpoint first and the authorization endpoint only after
\* registerClient has returned, never when it threw; a getToken whose fetch is
\* answered returns a credential for a 2xx JSON answer, returns null for the
\* answer authorization_pending and for no other, and throws for every other
\* non-2xx answer.
C37_StepOrder ==
    [][ /\ (DeviceAuthorizeCalled /\ ~oidcClient.registered)
               => /\ oidcClient'.outcome = "guard"
                  /\ oidcClient'.fetched = << >>
                  /\ Fields(oidcClient') = Fields(oidcClient)
        /\ (GetTokenCalled /\ ~oidcClient.authorized)
               => /\ oidcClient'.outcome = "guard"
                  /\ oidcClient'.fetched = << >>
        /\ QuickAuthCalled => oidcClient'.fetched = << "register" >>
        /\ \A a \in RegisterAnswers :
              (RegisterSettles(a) /\ oidcClient.within)
                  => IF a \in {"notJson", "refused", "throws"}
                     THEN /\ oidcClient'.outcome \in Thrown
                          /\ oidcClient'.fetched = << "register" >>
                          /\ oidcClient'.pc = "idle"
                     ELSE \/ oidcClient'.fetched = << "register", "authorize" >>
                          \/ oidcClient'.outcome = "guard"
        /\ \A a \in TokenAnswers :
              TokenSettles(a)
                  => /\ a = "ok" => oidcClient'.outcome = "credential"
                     /\ oidcClient'.outcome = "null" <=> a = "pending"
                     /\ a \in {"refused", "garbled"} => oidcClient'.outcome \in Thrown ]_vars

\* quickAuth has returned with the interval the endpoint gave, and a getToken
\* after it was answered authorization_pending.
C37_Witness ==
    /\ oidcClient.registered /\ oidcClient.authorized
    /\ oidcClient.interval = ServerInterval
    /\ oidcClient.outcome = "null"
    /\ oidcClient.fetched = << "token" >>

\* The value of the insertRandomDots call, and the properties claimed of it.
NoDotAtEnds(r) == r = << >> \/ (r[1] # Dot /\ r[Len(r)] # Dot)
NoAdjacentDots(r) == \A i \in 1..(Len(r) - 1) : ~(r[i] = Dot /\ r[i + 1] = Dot)
Undotted(r) == SelectSeq(r, LAMBDA ch : ch # Dot)

\* C38: the value insertRandomDots returns for a dot-free string and a count
\* of 1 or more neither starts nor ends with a dot, holds no two adjacent
\* dots, and is the argument once its dots are removed.
C38_DotsWellPlaced ==
    dotsCall.pc = "returned"
        => /\ NoDotAtEnds(dotsCall.result)
           /\ NoAdjacentDots(dotsCall.result)
           /\ Undotted(dotsCall.result) = dotsCall.str

\* The same without the adjacency.
DotsInsideAndRemovable ==
    dotsCall.pc = "returned"
        => /\ NoDotAtEnds(dotsCall.result)
           /\ Undotted(dotsCall.result) = dotsCall.str

\* With a count of 1 the dots are never adjacent.
OneDotWellPlaced ==
    (dotsCall.pc = "returned" /\ dotsCall.count = 1) => NoAdjacentDots(dotsCall.result)

\* The addresses returned so far, in lower case.
IssuedLower == { addressToLowerCase(aliasClient.issued[i]) : i \in DOMAIN aliasClient.issued }

\* C39: no two of the addresses generateAlias and createInbox have returned
\* are equal in lower case, and each of them is in usedVariants in lower
\* case.
C39_AliasesDistinct ==
    /\ \A i, j \in DOMAIN aliasClient.issued :
           i # j => addressToLowerCase(aliasClient.issued[i])
                        # addressToLowerCase(aliasClient.issued[j])
    /\ IssuedLower \subseteq aliasClient.usedVariants

\* Each returned address is in usedVariants in lower case, and usedVariants
\* holds nothing else.
IssuedAreRecorded == IssuedLower = aliasClient.usedVariants

\* A call in whose turns some address not yet in usedVariants was generated
\* returns an address that was not returned before.
FreshWhenFound ==
    [][ \A i \in DOMAIN aliasClient'.issued :
          (i > Len(aliasClient.issued)
              /\ addressToLowerCase(aliasClient'.issued[i]) \in IssuedLower)
              => aliasClient'.usedVariants = aliasClient.usedVariants ]_vars

====
